---- MODULE Spec2Model ----
(***************************************************************************)
(* A model of the wallet-custody and transaction-authorization core of the *)
(* shadow backend: poseidon.rs (pending transactions), ares.rs and         *)
(* wallet_handlers.rs (challenge authentication), zeus.rs (wallets),       *)
(* hestia.rs (dApp connections) and hephaestus.rs (content cache).         *)
(*                                                                         *)
(* The MongoDB collections are the shared state.  A request handler is a   *)
(* sequence of store operations (find_one, count_documents, update_one,    *)
(* update_many, insert_one, delete_one); each store operation is atomic    *)
(* and the handlers of concurrent requests interleave between them.        *)
(***************************************************************************)
EXTENDS Integers, FiniteSets, Sequences, TLC

VARIABLES
    pending_transactions,  \* poseidon.rs: collection "pending_transactions", _id -> document
    calls,                 \* poseidon.rs: the requests served, each with its position and result
    wallets,               \* zeus.rs: collection "wallets", _id -> document
    zcalls,                \* zeus.rs: the wallet requests served
    now,                   \* ares.rs: chrono::Utc::now().timestamp()
    uuids,                 \* zeus.rs, hestia.rs: number of ids uuid::Uuid::new_v4() has issued
    last_auth,             \* wallet_handlers.rs: the last X-Shadow-Auth header checked and the answers
    dapp_connections,      \* hestia.rs: collection "dapp_connections", _id -> document
    hcalls,                \* hestia.rs: the connection requests served
    granted,               \* history: (user, wallet, origin) -> the permission list of the last
                           \* connect_dapp for it, while no disconnect_dapp removed its record
    cache,                 \* hephaestus.rs: HephaestusCache.cache, key -> CacheEntry
    cache_log              \* hephaestus.rs: the hits and misses counters, and the last
                           \* cache operation with its result

vars == <<pending_transactions, calls, wallets, zcalls, now, uuids, last_auth,
          dapp_connections, hcalls, granted, cache, cache_log>>

\* The variables of the content cache, and their value while it is unused.
cacheVars == <<cache, cache_log>>
CacheIdle ==
    /\ cache = <<>>
    /\ cache_log = <<>>

\* The variables of the connection manager, and their value while it is unused.
hestiaVars == <<dapp_connections, hcalls, granted>>
HestiaIdle ==
    /\ dapp_connections = <<>>
    /\ hcalls = <<>>
    /\ granted = <<>>

\* ------------------------------------------------------------------ bounds
\* Number of transaction requests (create / sign / reject) served in one run.
MaxCalls == 3
\* Number of concurrent wallet requests served in one run of ZeusConcSpec.
MaxZCalls == 3
\* Number of wallet records ever created in one run.
MaxWallets == 3
\* Number of seconds the clock advances in one run of AuthSpec.
MaxNow == 2
\* Length in bytes at which a keypair's 64 bytes are modelled.
KeypairLen == 4
\* Length in bytes at which the 32-byte PBKDF2 key is modelled (the XOR key
\* repeats along the keypair bytes, as 32 does along 64).
DerivedKeyLen == 2
\* Number of connection records ever created in one run.
MaxConnections == 3
\* Number of concurrent connection requests served in one run of HestiaConcSpec.
MaxHCalls == 3
\* Width in bits at which the i64 of timestamps is modelled (300 < 2^(Bits-1)).
Bits == 12

Calls == 1..MaxCalls
Users == {"u1", "u2"}

\* ---------------------------------------------------------------- poseidon
\* TransactionStatus, serialized lowercase.
Pending == "pending"
Approved == "approved"
Rejected == "rejected"
Signed == "signed"
Failed == "failed"
TransactionStatus == {Pending, Approved, Rejected, Signed, Failed}

\* The Err(String) values of the transaction manager.
InvalidBase64 == "Invalid base64 transaction data"
InvalidTransactionData == "Invalid transaction data"
MalformedTransaction == "Invalid transaction format"
TransactionNotFound == "Transaction not found"
AlreadyProcessed == "Transaction already processed"
InvalidPrivateKey == "Invalid private key"
FailedToSerialize == "Failed to serialize transaction"
\* No Err: Transaction::sign panicked and the request was abandoned.
SignPanic == "panic"

\* transaction_data: a string; decodes says whether it is base64, deserializes
\* whether the decoded bytes are a bincode Transaction, signatures is the key
\* that signed it (0: none), signer the key the transaction's message requires.
UnsignedBlob ==
    [decodes |-> TRUE, deserializes |-> TRUE, payload |-> 1, signatures |-> 0, signer |-> 1]
GarbageBlob ==
    [decodes |-> TRUE, deserializes |-> FALSE, payload |-> 0, signatures |-> 0, signer |-> 0]
UndecodableBlob ==
    [decodes |-> FALSE, deserializes |-> FALSE, payload |-> 0, signatures |-> 0, signer |-> 0]
Blobs == {UnsignedBlob, GarbageBlob, UndecodableBlob}

\* private_key: &[u8]; 0 stands for bytes Keypair::from_bytes refuses, 1 and 2
\* for the bytes of two keypairs.
PrivateKeys == {0, 1, 2}

\* general_purpose::STANDARD.decode(data) succeeds
Base64Decodes(data) == data.decodes

\* A deserializer that accepts any bytes.
Deserializes_AcceptAll(data) == TRUE

\* bincode::deserialize::<Transaction>(&tx_bytes) succeeds
Deserializes(data) == data.deserializes

\* transaction.sign(&[&keypair], recent_blockhash) panics unless the keypair is
\* the signer the message requires.
SignPanics(data, key) == key # data.signer

\* bincode::serialize(&transaction): Ok(bytes) or Err, as the serializer decides.
SerializeOutcomes == BOOLEAN

\* transaction.sign(&[&keypair], recent_blockhash), then serialize and encode
SignBlob(data, key) == [data EXCEPT !.signatures = key]

\* Result<TransactionResponse, String> / Result<(), String>.
\* signed_transaction is an Option: {} is None, {b} is Some(b).
OkResult(id, status, signed) ==
    [ok |-> TRUE, err |-> "", id |-> id, status |-> status, signed_transaction |-> signed]
ErrResult(e) ==
    [ok |-> FALSE, err |-> e, id |-> 0, status |-> "", signed_transaction |-> {}]
NoResult == [ok |-> FALSE, err |-> "none", id |-> 0, status |-> "", signed_transaction |-> {}]

\* A request: its position, its operation and transaction_id argument, its result.
\* saw is history only: the status of the record the request's first store
\* operation matched ("" when its filter matched no record).
NewCall == [pc |-> "start", op |-> "none", transaction_id |-> 0, saw |-> "", result |-> NoResult]

\* uuid::Uuid::new_v4(): an id no stored document has (documents are never removed).
NewTransactionId == Cardinality(DOMAIN pending_transactions) + 1

\* find_one(doc! { "_id": transaction_id, "user_id": user_id })
FindTransaction(transaction_id, user_id) ==
    IF transaction_id \in DOMAIN pending_transactions
          /\ pending_transactions[transaction_id].user_id = user_id
    THEN {pending_transactions[transaction_id]}
    ELSE {}

\* A sign_transaction that refuses only records already signed.
SignStatusOk_AlreadySignedOnly(tx) == tx.status # Signed

\* sign_transaction's test of the record it loaded: tx.status != Pending is an error.
SignStatusOk(tx) == tx.status = Pending

\* sign_transaction's update_one(doc! { "_id": transaction_id }, $set status "signed")
SignUpdateOne(coll, transaction_id) ==
    IF transaction_id \in DOMAIN coll
    THEN [coll EXCEPT ![transaction_id].status = Signed]
    ELSE coll

\* A reject_transaction written as a delete_one with the same filter.
RejectUpdateOne_Delete(coll, transaction_id, user_id) ==
    IF transaction_id \in DOMAIN coll /\ coll[transaction_id].user_id = user_id
    THEN [i \in DOMAIN coll \ {transaction_id} |-> coll[i]]
    ELSE coll

\* reject_transaction's update_one(doc! { "_id": .., "user_id": .. }, $set status "rejected")
RejectUpdateOne(coll, transaction_id, user_id) ==
    IF transaction_id \in DOMAIN coll /\ coll[transaction_id].user_id = user_id
    THEN [coll EXCEPT ![transaction_id].status = Rejected]
    ELSE coll

\* create_transaction as request c's whole run: validate the blob, insert a
\* Pending record.
CreateTransactionCall(c, user_id, wallet_id, dapp_origin, transaction_data) ==
    IF ~Base64Decodes(transaction_data)
    THEN /\ calls' = [calls EXCEPT ![c] =
                 [pc |-> "done", op |-> "create", transaction_id |-> 0, saw |-> "",
                  result |-> ErrResult(InvalidBase64)]]
         /\ UNCHANGED pending_transactions
    ELSE IF ~Deserializes(transaction_data)
    THEN /\ calls' = [calls EXCEPT ![c] =
                 [pc |-> "done", op |-> "create", transaction_id |-> 0, saw |-> "",
                  result |-> ErrResult(MalformedTransaction)]]
         /\ UNCHANGED pending_transactions
    ELSE LET id == NewTransactionId
             pending == [user_id |-> user_id, wallet_id |-> wallet_id,
                         dapp_origin |-> dapp_origin,
                         transaction_data |-> transaction_data,
                         status |-> Pending]
         IN /\ pending_transactions' =
                   [i \in DOMAIN pending_transactions \cup {id} |->
                       IF i = id THEN pending ELSE pending_transactions[i]]
            /\ calls' = [calls EXCEPT ![c] =
                   [pc |-> "done", op |-> "create", transaction_id |-> id, saw |-> "",
                    result |-> OkResult(id, Pending, {})]]

\* PoseidonTransactionManager::create_transaction, called on the manager.
CreateTransaction(c, user_id, wallet_id, dapp_origin, transaction_data) ==
    /\ calls[c].pc = "start"
    /\ CreateTransactionCall(c, user_id, wallet_id, dapp_origin, transaction_data)
    /\ UNCHANGED <<wallets, zcalls, now, uuids, last_auth, hestiaVars, cacheVars>>

\* sign_transaction up to its update: find_one, the status test, decode, keypair,
\* sign, serialize.
SignFind(c, transaction_id, user_id, private_key) ==
    /\ calls[c].pc = "start"
    /\ LET found == FindTransaction(transaction_id, user_id)
           saw == IF found = {} THEN "" ELSE (CHOOSE t \in found : TRUE).status
           fail(e) == calls' = [calls EXCEPT ![c] =
                          [pc |-> "done", op |-> "sign", transaction_id |-> transaction_id,
                           saw |-> saw, result |-> ErrResult(e)]]
       IN IF found = {} THEN fail(TransactionNotFound)
          ELSE LET tx == CHOOSE t \in found : TRUE
               IN IF ~SignStatusOk(tx) THEN fail(AlreadyProcessed)
                  ELSE IF ~Base64Decodes(tx.transaction_data) THEN fail(InvalidTransactionData)
                  ELSE IF ~Deserializes(tx.transaction_data) THEN fail(MalformedTransaction)
                  ELSE IF private_key = 0 THEN fail(InvalidPrivateKey)
                  ELSE IF SignPanics(tx.transaction_data, private_key) THEN fail(SignPanic)
                  ELSE \E serialized \in SerializeOutcomes :
                         IF ~serialized THEN fail(FailedToSerialize)
                         ELSE calls' = [calls EXCEPT ![c] =
                                 [pc |-> "sign_update", op |-> "sign",
                                  transaction_id |-> transaction_id, saw |-> saw,
                                  result |-> OkResult(transaction_id, Signed,
                                         {SignBlob(tx.transaction_data, private_key)})]]
    /\ UNCHANGED <<pending_transactions, wallets, zcalls, now, uuids, last_auth, hestiaVars, cacheVars>>

\* sign_transaction's update_one and its Ok(TransactionResponse).
SignUpdate(c) ==
    /\ calls[c].pc = "sign_update"
    /\ pending_transactions' = SignUpdateOne(pending_transactions, calls[c].transaction_id)
    /\ calls' = [calls EXCEPT ![c].pc = "done"]
    /\ UNCHANGED <<wallets, zcalls, now, uuids, last_auth, hestiaVars, cacheVars>>

\* reject_transaction: one update_one, then Ok(()).
RejectTransaction(c, transaction_id, user_id) ==
    /\ calls[c].pc = "start"
    /\ pending_transactions' = RejectUpdateOne(pending_transactions, transaction_id, user_id)
    /\ calls' = [calls EXCEPT ![c] =
           [pc |-> "done", op |-> "reject", transaction_id |-> transaction_id,
            saw |-> IF FindTransaction(transaction_id, user_id) = {} THEN ""
                    ELSE pending_transactions[transaction_id].status,
            result |-> OkResult(transaction_id, "", {})]]
    /\ UNCHANGED <<wallets, zcalls, now, uuids, last_auth, hestiaVars, cacheVars>>

\* PoseidonTransactionManager::get_transaction: None ({}), or Some(response)
\* whose signed_transaction is the stored transaction_data when Signed.
GetTransaction(transaction_id, user_id) ==
    {OkResult(transaction_id, tx.status,
              IF tx.status = Signed THEN {tx.transaction_data} ELSE {}) :
        tx \in FindTransaction(transaction_id, user_id)}

\* get_transaction as request c's whole run: found says whether it returned
\* Some(response), result is the response.
GetTransactionCall(c, transaction_id, user_id) ==
    /\ calls[c].pc = "start"
    /\ LET got == GetTransaction(transaction_id, user_id)
       IN calls' = [calls EXCEPT ![c] =
              [pc |-> "done", op |-> "get", transaction_id |-> transaction_id,
               saw |-> IF got = {} THEN "" ELSE (CHOOSE r \in got : TRUE).status,
               result |-> IF got = {} THEN OkResult(0, "", {}) ELSE CHOOSE r \in got : TRUE,
               found |-> got # {}]]
    /\ UNCHANGED <<pending_transactions, wallets, zcalls, now, uuids, last_auth, hestiaVars, cacheVars>>

\* The documents matching doc! { "user_id": user_id, "status": "pending" }
FindPending_AnyUser(coll, user_id) == {id \in DOMAIN coll : coll[id].status = Pending}

FindPending(coll, user_id) ==
    {id \in DOMAIN coll : coll[id].user_id = user_id /\ coll[id].status = Pending}

\* The TransactionResponse get_pending_transactions builds from a document.
PendingResponse(id, tx) == [id |-> id, status |-> tx.status, signed_transaction |-> {}]

\* get_pending_transactions: find with the filter, one response per document
\* of the cursor; listed holds the elements of the returned Vec.
GetPendingTransactions(c, user_id) ==
    /\ calls[c].pc = "start"
    /\ calls' = [calls EXCEPT ![c] =
           [pc |-> "done", op |-> "list", transaction_id |-> 0, saw |-> "",
            result |-> OkResult(0, "", {}), user_id |-> user_id,
            listed |-> {PendingResponse(id, pending_transactions[id]) :
                           id \in FindPending(pending_transactions, user_id)}]]
    /\ UNCHANGED <<pending_transactions, wallets, zcalls, now, uuids, last_auth, hestiaVars, cacheVars>>

TxInit ==
    /\ pending_transactions = <<>>
    /\ calls = [c \in Calls |-> NewCall]

Init ==
    /\ TxInit
    /\ wallets = <<>>
    /\ zcalls = <<>>
    /\ now = 0
    /\ uuids = 0
    /\ last_auth = <<>>
    /\ HestiaIdle
    /\ CacheIdle

Next ==
    \E c \in Calls :
        \/ \E u \in Users, b \in Blobs : CreateTransaction(c, u, 1, "https://dapp.example", b)
        \/ \E id \in Calls, u \in Users, k \in PrivateKeys : SignFind(c, id, u, k)
        \/ SignUpdate(c)
        \/ \E id \in Calls, u \in Users : RejectTransaction(c, id, u)
        \/ \E u \in Users : GetPendingTransactions(c, u)
        \/ \E id \in Calls, u \in Users : GetTransactionCall(c, id, u)

Spec == Init /\ [][Next]_vars

\* ------------------------------------------------------------ claims C1-C5
StatusOf(id) == pending_transactions[id].status

\* C1: a record's status changes only by a step from Pending to Signed, Rejected
\* or Failed (a record that left Pending never changes again), and no record
\* ever holds the status Approved.
C1_StatusOneWay ==
    [][\A id \in DOMAIN pending_transactions :
          /\ pending_transactions'[id].status # Approved
          /\ pending_transactions'[id].status # pending_transactions[id].status
                => /\ pending_transactions[id].status = Pending
                   /\ pending_transactions'[id].status \in {Signed, Rejected, Failed}]_vars

\* C2: reject called by the owner on a record that is not Pending returns
\* AlreadyProcessed and leaves the record's status as it was.
C2_RejectAfterFinal ==
    [][\A c \in Calls, id \in Calls, u \in Users :
          (/\ RejectTransaction(c, id, u)
           /\ FindTransaction(id, u) # {}
           /\ StatusOf(id) # Pending)
          => /\ calls'[c].result = ErrResult(AlreadyProcessed)
             /\ pending_transactions'[id].status = StatusOf(id)]_vars

\* C3: sign_transaction called by the owner on a record that is not Pending
\* returns AlreadyProcessed with no signed blob, performs no store write and is
\* finished (it never reaches its update).
C3_SignAfterFinal ==
    [][\A c \in Calls, id \in Calls, u \in Users, k \in PrivateKeys :
          (/\ SignFind(c, id, u, k)
           /\ FindTransaction(id, u) # {}
           /\ StatusOf(id) # Pending)
          => /\ calls'[c].pc = "done"
             /\ calls'[c].result = ErrResult(AlreadyProcessed)
             /\ calls'[c].result.signed_transaction = {}
             /\ pending_transactions' = pending_transactions]_vars

\* C3 witness: a finished sign call on a record that was Signed or Rejected when
\* the call loaded it, answered AlreadyProcessed.
C3_Witness ==
    \E c \in Calls :
        /\ calls[c].pc = "done" /\ calls[c].op = "sign"
        /\ calls[c].saw \in {Signed, Rejected}
        /\ calls[c].result = ErrResult(AlreadyProcessed)
        /\ StatusOf(calls[c].transaction_id) = calls[c].saw

\* C4: a sign call and a reject call that both ran on the same record while it
\* was Pending: exactly one of them succeeds, the other returns
\* AlreadyProcessed, and the sign call returns no signed blob when the record
\* ends up Rejected.
C4_SignRejectRace ==
    \A c1 \in Calls, c2 \in Calls :
        (/\ calls[c1].pc = "done" /\ calls[c1].op = "sign"
         /\ calls[c2].pc = "done" /\ calls[c2].op = "reject"
         /\ calls[c1].transaction_id = calls[c2].transaction_id
         /\ calls[c1].saw = Pending /\ calls[c2].saw = Pending
         /\ calls[c1].result.err # InvalidPrivateKey)
        => /\ calls[c1].result.ok # calls[c2].result.ok
           /\ ~calls[c1].result.ok => calls[c1].result.err = AlreadyProcessed
           /\ ~calls[c2].result.ok => calls[c2].result.err = AlreadyProcessed
           /\ ~(/\ calls[c1].result.signed_transaction # {}
                /\ StatusOf(calls[c1].transaction_id) = Rejected)

\* C5: of the sign calls on one transaction, at most one returns a signed blob.
C5_SignedAtMostOnce ==
    \A c1 \in Calls, c2 \in Calls :
        (/\ c1 # c2
         /\ calls[c1].pc = "done" /\ calls[c1].op = "sign"
         /\ calls[c2].pc = "done" /\ calls[c2].op = "sign"
         /\ calls[c1].transaction_id = calls[c2].transaction_id)
        => ~(/\ calls[c1].result.signed_transaction # {}
             /\ calls[c2].result.signed_transaction # {})

\* -------------------------------------------------------------------- zeus
ZCalls == 1..MaxZCalls

\* The Err(String) values of the wallet manager.
WalletNotFound == "Wallet not found"
DuplicateWallet == "Wallet already imported"
CannotDeleteSoleWallet == "Cannot delete the only wallet"
InvalidImportKey == "Private key must be 64 bytes"

\* Public keys: of a keypair Keypair::new() generated for wallet id n, or of an
\* imported keypair n.
GeneratedPubkey(n) == [kind |-> "generated", n |-> n]
ImportedPubkey(n) == [kind |-> "imported", n |-> n]
NoPubkey == [kind |-> "none", n |-> 0]

\* import_wallet's private_key argument: the text of keypair n (64 bytes once
\* decoded), or text that does not decode to 64 bytes.
ImportKeys == {[decodes |-> TRUE, n |-> 1], [decodes |-> TRUE, n |-> 2],
               [decodes |-> FALSE, n |-> 0]}

\* ---- the encryption of private keys
\* b ^ k on u8
RECURSIVE XorBits(_, _, _)
XorBits(a, b, n) ==
    IF n = 0 THEN 0
    ELSE (((a % 2) + (b % 2)) % 2) + 2 * XorBits(a \div 2, b \div 2, n - 1)
XorByte(a, b) == XorBits(a, b, 8)

\* simple_xor_encrypt: byte i (from 0) is XORed with key[i % key.len()]
SimpleXorEncrypt(data, key) ==
    [i \in 1..Len(data) |-> XorByte(data[i], key[((i - 1) % Len(key)) + 1])]

\* A decryption that applies the key one byte late.
SimpleXorDecrypt_Shifted(data, key) ==
    [i \in 1..Len(data) |-> XorByte(data[i], key[(i % Len(key)) + 1])]

\* simple_xor_decrypt
SimpleXorDecrypt(data, key) == SimpleXorEncrypt(data, key)

\* hex::encode: two lowercase digits per byte
HexDigits == <<"0", "1", "2", "3", "4", "5", "6", "7",
               "8", "9", "a", "b", "c", "d", "e", "f">>
HexEncode(bytes) ==
    [i \in 1..(2 * Len(bytes)) |->
        IF i % 2 = 1 THEN HexDigits[(bytes[(i + 1) \div 2] \div 16) + 1]
        ELSE HexDigits[(bytes[i \div 2] % 16) + 1]]

\* hex::decode: Err on an odd length or a character that is no hex digit
HexValid(hex) ==
    /\ Len(hex) % 2 = 0
    /\ \A i \in 1..Len(hex) : \E v \in 1..16 : HexDigits[v] = hex[i]
HexValue(ch) == (CHOOSE v \in 1..16 : HexDigits[v] = ch) - 1
HexDecode(hex) ==
    [i \in 1..(Len(hex) \div 2) |-> 16 * HexValue(hex[2 * i - 1]) + HexValue(hex[2 * i])]

\* A digest of a byte string.
RECURSIVE Digest(_)
Digest(bytes) ==
    IF bytes = <<>> THEN 7 ELSE (31 * Digest(Tail(bytes)) + Head(bytes) + 1) % 256

\* pbkdf2::<Hmac<Sha256>>(password, salt, 100000, &mut key): a key that is a
\* function of the password and the salt, different for different passwords.
Pbkdf2(password, salt) ==
    [i \in 1..DerivedKeyLen |-> (13 * Digest(password) + 5 * Digest(salt) + 97 * i) % 256]

\* The passwords of the requests, as bytes: "pw", "px" and "".
Passwords == {<<112, 119>>, <<112, 120>>, <<>>}
\* The salts rand::random may produce.
Salts == {<<0>>, <<171>>}

\* keypair.to_bytes(): secret and public bytes of the keypair with this public key.
KeypairBytes(pubkey) ==
    [i \in 1..KeypairLen |->
        ((IF pubkey.kind = "generated" THEN 40 ELSE 200) + 16 * pubkey.n + 85 * i) % 256]

\* Result<Vec<u8>, String>
KOk(bytes) == [ok |-> TRUE, err |-> "", bytes |-> bytes]
KErr(e) == [ok |-> FALSE, err |-> e, bytes |-> <<>>]
InvalidEncryptedKey == "Invalid encrypted key format"
InvalidSalt == "Invalid salt format"

\* encrypt_private_key, with the salt it drew: (encrypted_hex, salt_hex)
EncryptPrivateKey(key_bytes, password, salt) ==
    [encrypted_hex |-> HexEncode(SimpleXorEncrypt(key_bytes, Pbkdf2(password, salt))),
     salt_hex |-> HexEncode(salt)]

\* decrypt_private_key
DecryptPrivateKey(encrypted_hex, salt_hex, password) ==
    IF ~HexValid(encrypted_hex) THEN KErr(InvalidEncryptedKey)
    ELSE IF ~HexValid(salt_hex) THEN KErr(InvalidSalt)
    ELSE KOk(SimpleXorDecrypt(HexDecode(encrypted_hex),
                              Pbkdf2(password, HexDecode(salt_hex))))

\* The Wallet document create_wallet and import_wallet build.  password is
\* history only (the password the key was encrypted with); no action reads it.
NewWallet(user_id, pubkey, password, salt, is_active) ==
    [user_id |-> user_id, pubkey |-> pubkey, is_active |-> is_active,
     encrypted_private_key |->
         EncryptPrivateKey(KeypairBytes(pubkey), password, salt).encrypted_hex,
     salt |-> EncryptPrivateKey(KeypairBytes(pubkey), password, salt).salt_hex,
     password |-> password]

\* Result<WalletResponse, String> / Result<(), String>
ZOk(id, is_active) == [ok |-> TRUE, err |-> "", id |-> id, is_active |-> is_active]
ZErr(e) == [ok |-> FALSE, err |-> e, id |-> 0, is_active |-> FALSE]

\* A wallet request: its position, operation, arguments and locals, its result.
NewZCall == [pc |-> "start", op |-> "none", user_id |-> "", wallet_id |-> 0,
             pubkey |-> NoPubkey, is_active |-> FALSE, password |-> <<>>, salt |-> <<>>,
             result |-> ZErr("none")]

ZDone(op, result) == [NewZCall EXCEPT !.pc = "done", !.op = op, !.result = result]

\* A finished request on a wallet: its arguments and the is_active of the record
\* its find_one loaded are kept with the result.
ZDoneOn(op, user_id, wallet_id, is_active, result) ==
    [ZDone(op, result) EXCEPT !.user_id = user_id, !.wallet_id = wallet_id,
                              !.is_active = is_active]

\* The wallets matching doc! { "user_id": user_id }
UserWallets(coll, user_id) == {id \in DOMAIN coll : coll[id].user_id = user_id}

\* count_documents(doc! { "user_id": user_id })
CountDocuments(coll, user_id) == Cardinality(UserWallets(coll, user_id))

\* An update_many whose filter names is_active: false, so that it clears nothing.
DeactivateAll_WrongFilter(coll, user_id) ==
    [id \in DOMAIN coll |->
        IF coll[id].user_id = user_id /\ ~coll[id].is_active
        THEN [coll[id] EXCEPT !.is_active = FALSE]
        ELSE coll[id]]

\* update_many(doc! { "user_id": user_id, "is_active": true }, $set is_active false)
DeactivateAll(coll, user_id) ==
    [id \in DOMAIN coll |->
        IF coll[id].user_id = user_id /\ coll[id].is_active
        THEN [coll[id] EXCEPT !.is_active = FALSE]
        ELSE coll[id]]

\* An update_one that matches no document.
ActivateOne_NoMatch(coll, wallet_id) == coll

\* update_one(doc! { "_id": wallet_id }, $set is_active true)
ActivateOne(coll, wallet_id) ==
    IF wallet_id \in DOMAIN coll
    THEN [coll EXCEPT ![wallet_id].is_active = TRUE]
    ELSE coll

\* insert_one(&wallet)
InsertOne(coll, id, wallet) ==
    [i \in DOMAIN coll \cup {id} |-> IF i = id THEN wallet ELSE coll[i]]

\* delete_one(doc! { "_id": wallet_id })
DeleteOne(coll, wallet_id) == [i \in DOMAIN coll \ {wallet_id} |-> coll[i]]

\* A find_one whose filter leaves out user_id.
FindWallet_AnyOwner(coll, wallet_id, user_id) ==
    IF wallet_id \in DOMAIN coll THEN {wallet_id} ELSE {}

\* find_one(doc! { "_id": wallet_id, "user_id": user_id }): the ids it matches
FindWallet(coll, wallet_id, user_id) ==
    IF wallet_id \in DOMAIN coll /\ coll[wallet_id].user_id = user_id
    THEN {wallet_id}
    ELSE {}

\* find_one(doc! { "pubkey": &pubkey }): the ids it matches
FindByPubkey(coll, pubkey) == {id \in DOMAIN coll : coll[id].pubkey = pubkey}

\* A count_documents with an empty filter: the wallets of all users.
FirstWallet_AnyUser(coll, user_id) == DOMAIN coll = {}

\* create_wallet: is_active = existing_count == 0
FirstWallet(coll, user_id) == CountDocuments(coll, user_id) = 0

\* import_wallet: the is_active of the Wallet it builds
ImportIsActive(coll, user_id) == FALSE

\* delete_wallet: count <= 1 refuses
SoleWallet(coll, user_id) == CountDocuments(coll, user_id) <= 1

\* ---- the handlers run to completion (ZeusSpec): one action is one whole call,
\* its result left in request slot 1.

\* create_wallet
CreateWallet(user_id, password, salt) ==
    /\ uuids < MaxWallets
    /\ LET id == uuids + 1
           is_active == FirstWallet(wallets, user_id)
           deactivated == IF is_active THEN DeactivateAll(wallets, user_id) ELSE wallets
           wallet == NewWallet(user_id, GeneratedPubkey(id), password, salt, is_active)
       IN /\ wallets' = InsertOne(deactivated, id, wallet)
          /\ uuids' = id
          /\ zcalls' = [zcalls EXCEPT ![1] = ZDone("create", ZOk(id, is_active))]
    /\ UNCHANGED <<pending_transactions, calls, now, last_auth, hestiaVars, cacheVars>>

\* import_wallet
ImportWallet(user_id, private_key, password, salt) ==
    /\ uuids < MaxWallets
    /\ IF ~private_key.decodes
       THEN /\ zcalls' = [zcalls EXCEPT ![1] = ZDone("import", ZErr(InvalidImportKey))]
            /\ UNCHANGED <<wallets, uuids>>
       ELSE IF FindByPubkey(wallets, ImportedPubkey(private_key.n)) # {}
       THEN /\ zcalls' = [zcalls EXCEPT ![1] = ZDone("import", ZErr(DuplicateWallet))]
            /\ UNCHANGED <<wallets, uuids>>
       ELSE LET id == uuids + 1
                wallet == NewWallet(user_id, ImportedPubkey(private_key.n), password, salt,
                                    ImportIsActive(wallets, user_id))
            IN /\ wallets' = InsertOne(wallets, id, wallet)
               /\ uuids' = id
               /\ zcalls' = [zcalls EXCEPT ![1] = ZDone("import", ZOk(id, wallet.is_active))]
    /\ UNCHANGED <<pending_transactions, calls, now, last_auth, hestiaVars, cacheVars>>

\* set_active_wallet
SetActiveWallet(user_id, wallet_id) ==
    /\ IF FindWallet(wallets, wallet_id, user_id) = {}
       THEN /\ zcalls' = [zcalls EXCEPT ![1] =
                    ZDoneOn("set_active", user_id, wallet_id, FALSE, ZErr(WalletNotFound))]
            /\ UNCHANGED wallets
       ELSE /\ wallets' = ActivateOne(DeactivateAll(wallets, user_id), wallet_id)
            /\ zcalls' = [zcalls EXCEPT ![1] =
                    ZDoneOn("set_active", user_id, wallet_id, wallets[wallet_id].is_active,
                            ZOk(wallet_id, TRUE))]
    /\ UNCHANGED <<pending_transactions, calls, now, uuids, last_auth, hestiaVars, cacheVars>>

\* delete_wallet; new_active is the record its find_one(doc! { "user_id": .. })
\* returns, any of the user's remaining wallets.
DeleteWallet(user_id, wallet_id, new_active) ==
    /\ IF FindWallet(wallets, wallet_id, user_id) = {}
       THEN /\ zcalls' = [zcalls EXCEPT ![1] =
                    ZDoneOn("delete", user_id, wallet_id, FALSE, ZErr(WalletNotFound))]
            /\ UNCHANGED wallets
       ELSE IF SoleWallet(wallets, user_id)
       THEN /\ zcalls' = [zcalls EXCEPT ![1] =
                    ZDoneOn("delete", user_id, wallet_id, wallets[wallet_id].is_active,
                            ZErr(CannotDeleteSoleWallet))]
            /\ UNCHANGED wallets
       ELSE LET deleted == DeleteOne(wallets, wallet_id)
            IN /\ new_active \in UserWallets(deleted, user_id)
               /\ wallets' = IF wallets[wallet_id].is_active
                             THEN ActivateOne(deleted, new_active)
                             ELSE deleted
               /\ zcalls' = [zcalls EXCEPT ![1] =
                       ZDoneOn("delete", user_id, wallet_id, wallets[wallet_id].is_active,
                               ZOk(wallet_id, FALSE))]
    /\ UNCHANGED <<pending_transactions, calls, now, uuids, last_auth, hestiaVars, cacheVars>>

ZeusInit ==
    /\ wallets = <<>>
    /\ zcalls = [c \in ZCalls |-> NewZCall]
    /\ uuids = 0
    /\ pending_transactions = <<>>
    /\ calls = <<>>
    /\ now = 0
    /\ last_auth = <<>>
    /\ HestiaIdle
    /\ CacheIdle

WalletIds == 1..MaxWallets

\* The password and the salt of the wallets of ZeusSpec and ZeusConcSpec.
ZeusPassword == <<112, 119>>
ZeusSalt == <<0>>

ZeusNext ==
    \/ \E u \in Users : CreateWallet(u, ZeusPassword, ZeusSalt)
    \/ \E u \in Users, k \in ImportKeys : ImportWallet(u, k, ZeusPassword, ZeusSalt)
    \/ \E u \in Users, id \in WalletIds : SetActiveWallet(u, id)
    \/ \E u \in Users, id \in WalletIds, n \in WalletIds : DeleteWallet(u, id, n)

ZeusSpec == ZeusInit /\ [][ZeusNext]_vars

\* ----------------------------------------------------------- claims C8, C9
ActiveWallets(user_id) == {id \in UserWallets(wallets, user_id) : wallets[id].is_active}

\* C8: after any sequence of completed create_wallet, import_wallet,
\* set_active_wallet and delete_wallet calls, no user has two active wallets.
C8_AtMostOneActive == \A u \in Users : Cardinality(ActiveWallets(u)) <= 1

\* C8 witness: a user owning several wallets, one of them active, after a
\* completed set_active_wallet or delete_wallet.
C8_Witness ==
    \E u \in Users :
        /\ Cardinality(UserWallets(wallets, u)) >= 2
        /\ Cardinality(ActiveWallets(u)) = 1
        /\ zcalls[1].op \in {"set_active", "delete"}
        /\ zcalls[1].result.ok

\* C9: after any sequence of completed calls, a user who owns a wallet has an
\* active one.
C9_SomeActive ==
    \A u \in Users : UserWallets(wallets, u) # {} => ActiveWallets(u) # {}

\* ---- the handlers as sequences of store operations (ZeusConcSpec): each
\* request c runs once, and requests interleave between store operations.
ZOther == <<pending_transactions, calls, now, last_auth, hestiaVars, cacheVars>>

\* create_wallet: the keypair and the id, then count_documents
CreateCount(c, user_id, password, salt) ==
    /\ zcalls[c].pc = "start"
    /\ uuids < MaxWallets
    /\ uuids' = uuids + 1
    /\ zcalls' = [zcalls EXCEPT ![c] =
           [NewZCall EXCEPT !.pc = IF FirstWallet(wallets, user_id)
                                   THEN "create_deactivate" ELSE "create_insert",
                            !.op = "create", !.user_id = user_id,
                            !.wallet_id = uuids + 1,
                            !.pubkey = GeneratedPubkey(uuids + 1),
                            !.password = password, !.salt = salt,
                            !.is_active = FirstWallet(wallets, user_id)]]
    /\ UNCHANGED wallets
    /\ UNCHANGED ZOther

\* create_wallet: if is_active, update_many
CreateDeactivate(c) ==
    /\ zcalls[c].pc = "create_deactivate"
    /\ wallets' = DeactivateAll(wallets, zcalls[c].user_id)
    /\ zcalls' = [zcalls EXCEPT ![c].pc = "create_insert"]
    /\ UNCHANGED uuids
    /\ UNCHANGED ZOther

\* create_wallet: insert_one
CreateInsert(c) ==
    /\ zcalls[c].pc = "create_insert"
    /\ wallets' = InsertOne(wallets, zcalls[c].wallet_id,
                      NewWallet(zcalls[c].user_id, zcalls[c].pubkey, zcalls[c].password,
                                zcalls[c].salt, zcalls[c].is_active))
    /\ zcalls' = [zcalls EXCEPT ![c].pc = "done",
                                ![c].result = ZOk(zcalls[c].wallet_id, zcalls[c].is_active)]
    /\ UNCHANGED uuids
    /\ UNCHANGED ZOther

\* import_wallet: parse the key, find_one by pubkey, build the Wallet
ImportFind(c, user_id, private_key, password, salt) ==
    /\ zcalls[c].pc = "start"
    /\ uuids < MaxWallets
    /\ IF ~private_key.decodes
       THEN /\ zcalls' = [zcalls EXCEPT ![c] = ZDone("import", ZErr(InvalidImportKey))]
            /\ UNCHANGED uuids
       ELSE IF FindByPubkey(wallets, ImportedPubkey(private_key.n)) # {}
       THEN /\ zcalls' = [zcalls EXCEPT ![c] = ZDone("import", ZErr(DuplicateWallet))]
            /\ UNCHANGED uuids
       ELSE /\ uuids' = uuids + 1
            /\ zcalls' = [zcalls EXCEPT ![c] =
                   [NewZCall EXCEPT !.pc = "import_insert", !.op = "import",
                                    !.user_id = user_id, !.wallet_id = uuids + 1,
                                    !.pubkey = ImportedPubkey(private_key.n),
                                    !.password = password, !.salt = salt,
                                    !.is_active = ImportIsActive(wallets, user_id)]]
    /\ UNCHANGED wallets
    /\ UNCHANGED ZOther

\* import_wallet: insert_one
ImportInsert(c) ==
    /\ zcalls[c].pc = "import_insert"
    /\ wallets' = InsertOne(wallets, zcalls[c].wallet_id,
                      NewWallet(zcalls[c].user_id, zcalls[c].pubkey, zcalls[c].password,
                                zcalls[c].salt, zcalls[c].is_active))
    /\ zcalls' = [zcalls EXCEPT ![c].pc = "done",
                                ![c].result = ZOk(zcalls[c].wallet_id, zcalls[c].is_active)]
    /\ UNCHANGED uuids
    /\ UNCHANGED ZOther

\* set_active_wallet: find_one
SetActiveFind(c, user_id, wallet_id) ==
    /\ zcalls[c].pc = "start"
    /\ zcalls' = [zcalls EXCEPT ![c] =
           IF FindWallet(wallets, wallet_id, user_id) = {}
           THEN ZDone("set_active", ZErr(WalletNotFound))
           ELSE [NewZCall EXCEPT !.pc = "set_deactivate", !.op = "set_active",
                                 !.user_id = user_id, !.wallet_id = wallet_id]]
    /\ UNCHANGED <<wallets, uuids>>
    /\ UNCHANGED ZOther

\* set_active_wallet: update_many
SetActiveDeactivate(c) ==
    /\ zcalls[c].pc = "set_deactivate"
    /\ wallets' = DeactivateAll(wallets, zcalls[c].user_id)
    /\ zcalls' = [zcalls EXCEPT ![c].pc = "set_activate"]
    /\ UNCHANGED uuids
    /\ UNCHANGED ZOther

\* set_active_wallet: update_one
SetActiveActivate(c) ==
    /\ zcalls[c].pc = "set_activate"
    /\ wallets' = ActivateOne(wallets, zcalls[c].wallet_id)
    /\ zcalls' = [zcalls EXCEPT ![c].pc = "done",
                                ![c].result = ZOk(zcalls[c].wallet_id, TRUE)]
    /\ UNCHANGED uuids
    /\ UNCHANGED ZOther

\* delete_wallet: find_one, keeping the record's is_active
DeleteFind(c, user_id, wallet_id) ==
    /\ zcalls[c].pc = "start"
    /\ zcalls' = [zcalls EXCEPT ![c] =
           IF FindWallet(wallets, wallet_id, user_id) = {}
           THEN ZDone("delete", ZErr(WalletNotFound))
           ELSE [NewZCall EXCEPT !.pc = "delete_count", !.op = "delete",
                                 !.user_id = user_id, !.wallet_id = wallet_id,
                                 !.is_active = wallets[wallet_id].is_active]]
    /\ UNCHANGED <<wallets, uuids>>
    /\ UNCHANGED ZOther

\* delete_wallet: count_documents
DeleteCount(c) ==
    /\ zcalls[c].pc = "delete_count"
    /\ zcalls' = [zcalls EXCEPT ![c] =
           IF SoleWallet(wallets, zcalls[c].user_id)
           THEN ZDone("delete", ZErr(CannotDeleteSoleWallet))
           ELSE [zcalls[c] EXCEPT !.pc = "delete_one"]]
    /\ UNCHANGED <<wallets, uuids>>
    /\ UNCHANGED ZOther

\* delete_wallet: delete_one; done unless the record it loaded was active
DeleteRemove(c) ==
    /\ zcalls[c].pc = "delete_one"
    /\ wallets' = DeleteOne(wallets, zcalls[c].wallet_id)
    /\ zcalls' = [zcalls EXCEPT ![c] =
           IF zcalls[c].is_active
           THEN [zcalls[c] EXCEPT !.pc = "delete_find_new"]
           ELSE [zcalls[c] EXCEPT !.pc = "done", !.result = ZOk(zcalls[c].wallet_id, FALSE)]]
    /\ UNCHANGED uuids
    /\ UNCHANGED ZOther

\* delete_wallet: find_one(doc! { "user_id": .. }), any of the user's wallets
DeleteFindNew(c, new_active) ==
    /\ zcalls[c].pc = "delete_find_new"
    /\ IF UserWallets(wallets, zcalls[c].user_id) = {}
       THEN zcalls' = [zcalls EXCEPT ![c].pc = "done",
                                     ![c].result = ZOk(zcalls[c].wallet_id, FALSE)]
       ELSE /\ new_active \in UserWallets(wallets, zcalls[c].user_id)
            /\ zcalls' = [zcalls EXCEPT ![c].pc = "delete_activate",
                                        ![c].result = ZOk(zcalls[c].wallet_id, FALSE),
                                        ![c].wallet_id = new_active]
    /\ UNCHANGED <<wallets, uuids>>
    /\ UNCHANGED ZOther

\* delete_wallet: update_one on the record found
DeleteActivate(c) ==
    /\ zcalls[c].pc = "delete_activate"
    /\ wallets' = ActivateOne(wallets, zcalls[c].wallet_id)
    /\ zcalls' = [zcalls EXCEPT ![c].pc = "done"]
    /\ UNCHANGED uuids
    /\ UNCHANGED ZOther

ZeusConcNext ==
    \E c \in ZCalls :
        \/ \E u \in Users : CreateCount(c, u, ZeusPassword, ZeusSalt)
        \/ CreateDeactivate(c)
        \/ CreateInsert(c)
        \/ \E u \in Users, k \in ImportKeys : ImportFind(c, u, k, ZeusPassword, ZeusSalt)
        \/ ImportInsert(c)
        \/ \E u \in Users, id \in WalletIds : SetActiveFind(c, u, id)
        \/ SetActiveDeactivate(c)
        \/ SetActiveActivate(c)
        \/ \E u \in Users, id \in WalletIds : DeleteFind(c, u, id)
        \/ DeleteCount(c)
        \/ DeleteRemove(c)
        \/ \E n \in WalletIds : DeleteFindNew(c, n)
        \/ DeleteActivate(c)

ZeusConcSpec == ZeusInit /\ [][ZeusConcNext]_vars

\* ---------------------------------------------------------------- claim C10
\* C10: in every state between store operations, also while set_active_wallet
\* or create_wallet calls are in progress or interleave, a user who owns at
\* least one wallet has exactly one active wallet.  Stated for users none of
\* whose wallets came from import_wallet (whose records are never active).
C10_ExactlyOneActive ==
    \A u \in Users :
        (/\ UserWallets(wallets, u) # {}
         /\ \A id \in UserWallets(wallets, u) : wallets[id].pubkey.kind = "generated")
        => Cardinality(ActiveWallets(u)) = 1

\* -------------------------------------------------- ares, wallet_handlers
\* The freshness window of AuthHeader::verify, in seconds.
FreshnessWindow == 300

Unauthorized == "Unauthorized"
ChallengeExpired == "Challenge expired"
InvalidSignatureEncoding == "Invalid signature encoding"
InvalidPubkey == "Invalid pubkey"
InvalidPublicKey == "Invalid public key"
InvalidSignature == "Invalid signature"
InvalidAuthHeader == "Invalid auth header"

\* The wallet field of a header: the base58 text of a keypair's public key,
\* text Pubkey::from_str refuses, or the text of 32 bytes that are no point of
\* the curve (PublicKey::from_bytes refuses them).
AuthWallets == {"walletA", "walletB", "not-a-pubkey", "off-curve-pubkey"}
PubkeyParses(pubkey) == pubkey # "not-a-pubkey"
PubkeyOnCurve(pubkey) == pubkey # "off-curve-pubkey"

\* create_challenge: format!("Shadow authentication challenge for {} at {}", ..)
CreateChallenge(wallet, timestamp) ==
    <<"Shadow authentication challenge for ", wallet, " at ", timestamp>>

\* verify_signature's message bytes: the off-chain prefix, the length byte (a
\* function of the message) and the message, hashed with SHA-256 (collision free).
OffchainHash(message) ==
    [sha256 |-> <<"\\xffsolana offchain message", Len(message), message>>]

\* The signature field of a header: the base58 text of the ed25519 signature
\* the keypair of `signer` makes over `signed`, text Signature::from_str refuses,
\* or the text of 64 bytes EdSignature::from_bytes refuses (canonical is FALSE).
SignatureBy(signer, wallet, timestamp) ==
    [decodes |-> TRUE, canonical |-> TRUE, signer |-> signer,
     signed |-> OffchainHash(CreateChallenge(wallet, timestamp))]
MalformedSignature ==
    [decodes |-> FALSE, canonical |-> FALSE, signer |-> "", signed |-> OffchainHash(<<>>)]
NonCanonicalSignature ==
    [decodes |-> TRUE, canonical |-> FALSE, signer |-> "", signed |-> OffchainHash(<<>>)]

\* Result<bool, String>
VOk(b) == [ok |-> TRUE, value |-> b, err |-> ""]
VErr(e) == [ok |-> FALSE, value |-> FALSE, err |-> e]

\* A verify_signature that treats every failure to parse as a signature that
\* does not verify.
VerifySignature_ParseErrorsAsFalse(message, signature, pubkey) ==
    VOk(/\ signature.decodes /\ signature.canonical
        /\ PubkeyParses(pubkey) /\ PubkeyOnCurve(pubkey)
        /\ signature.signer = pubkey /\ signature.signed = OffchainHash(message))

\* AresAuth::verify_signature; public_key.verify(hash, sig).is_ok() is true for
\* the signature the key's owner made over that hash.
VerifySignature(message, signature, pubkey) ==
    IF ~signature.decodes THEN VErr(InvalidSignatureEncoding)
    ELSE IF ~PubkeyParses(pubkey) THEN VErr(InvalidPubkey)
    ELSE IF ~PubkeyOnCurve(pubkey) THEN VErr(InvalidPublicKey)
    ELSE IF ~signature.canonical THEN VErr(InvalidSignature)
    ELSE VOk(signature.signer = pubkey /\ signature.signed = OffchainHash(message))

\* AresAuth::verify_challenge
VerifyChallenge(wallet, signature, timestamp) ==
    VerifySignature(CreateChallenge(wallet, timestamp), signature, wallet)

Abs(x) == IF x < 0 THEN -x ELSE x

\* The signed integers of the timestamp type, and two's complement wrapping.
IntMin == -(2 ^ (Bits - 1))
IntMax == 2 ^ (Bits - 1) - 1
Overflows(x) == x < IntMin \/ x > IntMax
Wrap(x) == ((x - IntMin) % (2 ^ Bits)) + IntMin

\* A panic of the request's thread: no value is returned.
Panicked == [ok |-> FALSE, value |-> FALSE, err |-> "panic"]

\* AuthHeader::verify, at clock reading t.  overflow_checks is the build's
\* setting: with it `now - self.timestamp` and `.abs()` panic on overflow,
\* without it they wrap (abs of the least integer is the least integer).
AuthHeaderVerify(header, t, overflow_checks) ==
    LET diff == t - header.timestamp
        wrapped == Wrap(diff)
        age == IF wrapped = IntMin THEN IntMin ELSE Abs(wrapped)
    IN IF overflow_checks /\ (Overflows(diff) \/ wrapped = IntMin) THEN Panicked
       ELSE IF age > FreshnessWindow THEN VErr(ChallengeExpired)
       ELSE VerifyChallenge(header.wallet, header.signature, header.timestamp)

\* Result<String, ShadowError>
AOk(user_id) == [ok |-> TRUE, user_id |-> user_id, err |-> ""]
AErr(e) == [ok |-> FALSE, user_id |-> "", err |-> e]

\* wallet_handlers::verify_auth on the request's X-Shadow-Auth header (form is
\* "missing", "unparsable" or "json"), at clock reading t.  The bool inside
\* Ok(..) of auth.verify is dropped by the `?`.
VerifyAuth(header, t, overflow_checks) ==
    IF header.form = "missing" THEN AErr(Unauthorized)
    ELSE IF header.form = "unparsable" THEN AErr(InvalidAuthHeader)
    ELSE IF AuthHeaderVerify(header, t, overflow_checks) = Panicked THEN AErr("panic")
    ELSE IF ~AuthHeaderVerify(header, t, overflow_checks).ok THEN AErr(Unauthorized)
    ELSE AOk(header.wallet)

\* The timestamps a header may carry, and the signatures and headers.
TimestampInputs ==
    {-FreshnessWindow - 1, -FreshnessWindow, FreshnessWindow, FreshnessWindow + 1,
     IntMin, IntMax}
SignatureInputs ==
    {MalformedSignature, NonCanonicalSignature} \cup
    {SignatureBy(s, w, t) : s \in {"walletA", "walletB"}, w \in {"walletA", "walletB"},
                            t \in TimestampInputs}
JsonHeaders ==
    [form : {"json"}, wallet : AuthWallets, signature : SignatureInputs,
     timestamp : TimestampInputs]
NoHeader(form) ==
    [form |-> form, wallet |-> "", signature |-> MalformedSignature, timestamp |-> 0]
Headers == JsonHeaders \cup {NoHeader("missing"), NoHeader("unparsable")}

\* What the last authentication computed: fn is the function applied
\* ("verify_auth" or "verify_challenge"), wallet, signature and timestamp its
\* arguments (the header's fields), at the clock reading, result the
\* Result<bool, String> of AuthHeader::verify or of verify_challenge, outcome
\* verify_auth's result.
NoAuth == [fn |-> "none", form |-> "", wallet |-> "", signature |-> MalformedSignature,
           timestamp |-> 0, at |-> 0, result |-> VErr("none"), outcome |-> AErr("none")]

\* wallet_handlers::verify_auth applied to a request's header.
VerifyAuthCall(header, overflow_checks) ==
    /\ last_auth' = [fn |-> "verify_auth", form |-> header.form, wallet |-> header.wallet,
                     signature |-> header.signature, timestamp |-> header.timestamp,
                     at |-> now,
                     result |-> IF header.form = "json"
                                THEN AuthHeaderVerify(header, now, overflow_checks)
                                ELSE VErr("none"),
                     outcome |-> VerifyAuth(header, now, overflow_checks)]
    /\ UNCHANGED <<pending_transactions, calls, wallets, zcalls, now, uuids, hestiaVars, cacheVars>>

\* A direct call of the public AresAuth::verify_challenge.
VerifyChallengeCall(wallet, signature, timestamp) ==
    /\ last_auth' = [fn |-> "verify_challenge", form |-> "json", wallet |-> wallet,
                     signature |-> signature, timestamp |-> timestamp, at |-> now,
                     result |-> VerifyChallenge(wallet, signature, timestamp),
                     outcome |-> AErr("none")]
    /\ UNCHANGED <<pending_transactions, calls, wallets, zcalls, now, uuids, hestiaVars, cacheVars>>

\* chrono::Utc::now() advances.
Tick ==
    /\ now < MaxNow
    /\ now' = now + 1
    /\ UNCHANGED <<pending_transactions, calls, wallets, zcalls, uuids, last_auth, hestiaVars, cacheVars>>

AuthInit ==
    /\ pending_transactions = <<>>
    /\ calls = <<>>
    /\ wallets = <<>>
    /\ zcalls = <<>>
    /\ now = 0
    /\ uuids = 0
    /\ last_auth = NoAuth
    /\ HestiaIdle
    /\ CacheIdle

AuthNext ==
    \/ \E h \in Headers, oc \in BOOLEAN : VerifyAuthCall(h, oc)
    \/ \E w \in AuthWallets, s \in SignatureInputs, t \in TimestampInputs :
           VerifyChallengeCall(w, s, t)
    \/ Tick

AuthSpec == AuthInit /\ [][AuthNext]_vars

\* wallet_handlers::create_transaction as request c's whole run: verify_auth,
\* then the manager's create_transaction with the header's wallet as user_id.
\* Requests take the slots in order.
HandleCreateTransaction(c, header, body, overflow_checks) ==
    /\ calls[c].pc = "start"
    /\ \A d \in Calls : d < c => calls[d].pc = "done"
    /\ IF VerifyAuth(header, now, overflow_checks).ok
       THEN CreateTransactionCall(c, VerifyAuth(header, now, overflow_checks).user_id,
                                  body.wallet_id, body.dapp_origin, body.transaction_data)
       ELSE /\ calls' = [calls EXCEPT ![c] =
                    [pc |-> "done", op |-> "create", transaction_id |-> 0, saw |-> "",
                     result |-> ErrResult(VerifyAuth(header, now, overflow_checks).err)]]
            /\ UNCHANGED pending_transactions
    /\ UNCHANGED <<wallets, zcalls, now, uuids, last_auth, hestiaVars, cacheVars>>

Bodies == [wallet_id : {1}, dapp_origin : {"https://dapp.example"}, transaction_data : Blobs]

HandlerInit ==
    /\ TxInit
    /\ wallets = <<>>
    /\ zcalls = <<>>
    /\ now = 0
    /\ uuids = 0
    /\ last_auth = NoAuth
    /\ HestiaIdle
    /\ CacheIdle

HandlerNext ==
    \/ \E c \in Calls, h \in Headers, b \in Bodies, oc \in BOOLEAN :
           HandleCreateTransaction(c, h, b, oc)
    \/ Tick

HandlerSpec == HandlerInit /\ [][HandlerNext]_vars

\* ----------------------------------------------------------- claims C6, C7
\* The signature is the one the wallet's keypair makes over the canonical
\* challenge of (wallet, timestamp).
SignatureValidFor(signature, wallet, timestamp) ==
    /\ signature.decodes
    /\ PubkeyParses(wallet)
    /\ signature = SignatureBy(wallet, wallet, timestamp)

\* C6: a handler that calls verify_auth, given a header whose signature and
\* wallet are well formed but whose signature does not verify, answers
\* Unauthorized and changes nothing in the store (here the create_transaction
\* handler, given a body the manager would store).
C6_UnverifiedRejected ==
    [][\A c \in Calls, h \in JsonHeaders, b \in Bodies, oc \in BOOLEAN :
          (/\ HandleCreateTransaction(c, h, b, oc)
           /\ Base64Decodes(b.transaction_data) /\ Deserializes(b.transaction_data)
           /\ h.signature.decodes /\ PubkeyParses(h.wallet)
           /\ ~SignatureValidFor(h.signature, h.wallet, h.timestamp))
          => /\ calls'[c].result = ErrResult(Unauthorized)
             /\ pending_transactions' = pending_transactions]_vars

\* C7: verification of (wallet, signature, timestamp) succeeds, with Ok(true),
\* exactly for a signature valid for the canonical challenge and a timestamp at
\* most 300 seconds from the clock; stated of AuthHeader::verify, the one place
\* that tests freshness, on each header verify_auth checked.
C7_VerifyFresh ==
    (last_auth.fn = "verify_auth" /\ last_auth.form = "json")
    => (last_auth.result = VOk(TRUE)
          <=> /\ SignatureValidFor(last_auth.signature, last_auth.wallet, last_auth.timestamp)
              /\ Abs(last_auth.at - last_auth.timestamp) <= FreshnessWindow)

\* -------------------------------------------------------- claims C19, C20
\* C19: get_pending_transactions(user_id) returns exactly the records of the
\* store whose user_id is the argument and whose status is Pending, each with
\* its own id and the status Pending: no record of another user, and no
\* Signed, Rejected or Failed record.
C19_ListPendingExact ==
    [][\A c \in Calls, u \in Users :
          GetPendingTransactions(c, u)
          => /\ \A r \in calls'[c].listed :
                    /\ r.id \in DOMAIN pending_transactions
                    /\ pending_transactions[r.id].user_id = u
                    /\ pending_transactions[r.id].status = Pending
                    /\ r.status = Pending
             /\ \A id \in DOMAIN pending_transactions :
                    (pending_transactions[id].user_id = u
                        /\ pending_transactions[id].status = Pending)
                    => \E r \in calls'[c].listed : r.id = id
             /\ pending_transactions' = pending_transactions]_vars

\* C19 witness: a finished list call that returned a record of its user while
\* the store also held a Pending record of another user.
C19_Witness ==
    \E c \in Calls :
        /\ calls[c].pc = "done" /\ calls[c].op = "list"
        /\ calls[c].listed # {}
        /\ \E id \in DOMAIN pending_transactions :
               /\ pending_transactions[id].user_id # calls[c].user_id
               /\ pending_transactions[id].status = Pending
               /\ \A r \in calls[c].listed : r.id # id

\* C20: create_transaction with a blob that is not base64 or does not
\* deserialize as a Transaction returns a malformed-transaction error and
\* leaves the store unchanged; with a valid blob it stores exactly one new
\* record, Pending, whose user, wallet, origin and blob are the arguments, and
\* changes no other record.
C20_CreateValidates ==
    [][\A c \in Calls, u \in Users, b \in Blobs :
          CreateTransaction(c, u, 1, "https://dapp.example", b)
          => IF ~(b.decodes /\ b.deserializes)
             THEN /\ calls'[c].result \in {ErrResult(InvalidBase64),
                                           ErrResult(MalformedTransaction)}
                  /\ pending_transactions' = pending_transactions
             ELSE /\ calls'[c].result.ok
                  /\ calls'[c].result.status = Pending
                  /\ calls'[c].result.id \notin DOMAIN pending_transactions
                  /\ DOMAIN pending_transactions' =
                         DOMAIN pending_transactions \cup {calls'[c].result.id}
                  /\ pending_transactions'[calls'[c].result.id] =
                         [user_id |-> u, wallet_id |-> 1,
                          dapp_origin |-> "https://dapp.example",
                          transaction_data |-> b, status |-> Pending]
                  /\ \A id \in DOMAIN pending_transactions :
                         pending_transactions'[id] = pending_transactions[id]]_vars

\* C20 witness: one create call refused for its blob and another that stored
\* a Pending record, the only record of the store.
C20_Witness ==
    \E c1 \in Calls, c2 \in Calls :
        /\ calls[c1].pc = "done" /\ calls[c1].op = "create"
        /\ calls[c1].result \in {ErrResult(InvalidBase64), ErrResult(MalformedTransaction)}
        /\ calls[c2].pc = "done" /\ calls[c2].op = "create" /\ calls[c2].result.ok
        /\ DOMAIN pending_transactions = {calls[c2].result.id}
        /\ StatusOf(calls[c2].result.id) = Pending

\* ------------------------------------------------------------------ hestia
\* Permission, serialized lowercase.
ViewBalance == "viewbalance"
RequestTransaction == "requesttransaction"
SignMessage == "signmessage"
ViewPublicKey == "viewpublickey"
Permission == {ViewBalance, RequestTransaction, SignMessage, ViewPublicKey}

\* The requested_permissions lists of the connect requests.
PermissionLists ==
    {<<>>, <<ViewBalance>>, <<ViewBalance, RequestTransaction>>}
Origins == {"https://dapp.example", "https://other.example"}
ConnectionWallets == {1}
ConnectionIds == 1..MaxConnections
HCalls == 1..MaxHCalls

\* conn.permissions.contains(permission)
Contains(permissions, permission) ==
    \E i \in 1..Len(permissions) : permissions[i] = permission

\* A filter that leaves out dapp_origin.
FindConnection_AnyOrigin(coll, user_id, wallet_id, dapp_origin) ==
    {id \in DOMAIN coll : coll[id].user_id = user_id /\ coll[id].wallet_id = wallet_id}

\* The documents matching doc! { "user_id": .., "wallet_id": .., "dapp_origin": .. }
FindConnection(coll, user_id, wallet_id, dapp_origin) ==
    {id \in DOMAIN coll : /\ coll[id].user_id = user_id
                          /\ coll[id].wallet_id = wallet_id
                          /\ coll[id].dapp_origin = dapp_origin}

\* An update_many with an empty filter: every document gets the permissions.
SetPermissions_AllDocuments(coll, id, permissions) ==
    [i \in DOMAIN coll |-> [coll[i] EXCEPT !.permissions = permissions]]

\* An update that leaves the stored permissions as they were.
SetPermissions_Keep(coll, id, permissions) == coll

\* connect_dapp's update_one(doc! { "_id": &conn.id }, $set permissions)
SetPermissions(coll, id, permissions) ==
    IF id \in DOMAIN coll
    THEN [coll EXCEPT ![id].permissions = permissions]
    ELSE coll

\* the "last_used" of connect_dapp's $set
SetLastUsed(coll, id, t) ==
    IF id \in DOMAIN coll
    THEN [coll EXCEPT ![id].last_used = t]
    ELSE coll

\* The DAppConnection connect_dapp builds at time t; dapp_icon is an Option.
NewConnection(user_id, wallet_id, dapp_origin, dapp_name, dapp_icon, permissions, t) ==
    [user_id |-> user_id, wallet_id |-> wallet_id, dapp_origin |-> dapp_origin,
     dapp_name |-> dapp_name, dapp_icon |-> dapp_icon, permissions |-> permissions,
     connected_at |-> t, last_used |-> t]

\* dapp_name and dapp_icon of the requests of HestiaSpec and HestiaConcSpec.
DappName == "Example dApp"
DappIcon == {}

\* connect_dapp's insert_one(&connection)
InsertConnection(coll, id, connection) ==
    [i \in DOMAIN coll \cup {id} |-> IF i = id THEN connection ELSE coll[i]]

\* A delete_one that matches no document.
DeleteConnection_NoMatch(coll, connection_id, user_id) == coll

\* A delete_one whose filter leaves out user_id.
DeleteConnection_AnyOwner(coll, connection_id, user_id) ==
    [i \in DOMAIN coll \ {connection_id} |-> coll[i]]

\* disconnect_dapp's delete_one(doc! { "_id": connection_id, "user_id": user_id })
DeleteConnection(coll, connection_id, user_id) ==
    IF connection_id \in DOMAIN coll /\ coll[connection_id].user_id = user_id
    THEN [i \in DOMAIN coll \ {connection_id} |-> coll[i]]
    ELSE coll

\* has_permission: the answers it can give, one per document its find_one may
\* return; false when no document matches.
HasPermission(coll, user_id, wallet_id, dapp_origin, permission) ==
    IF FindConnection(coll, user_id, wallet_id, dapp_origin) = {}
    THEN {FALSE}
    ELSE {Contains(coll[id].permissions, permission) :
             id \in FindConnection(coll, user_id, wallet_id, dapp_origin)}

\* Result<DAppConnectionResponse, String>, Result<(), String>, Result<bool, String>
HOk(id, permissions) ==
    [ok |-> TRUE, err |-> "", id |-> id, permissions |-> permissions, value |-> FALSE]
HBool(b) == [ok |-> TRUE, err |-> "", id |-> 0, permissions |-> <<>>, value |-> b]
HErr(e) == [ok |-> FALSE, err |-> e, id |-> 0, permissions |-> <<>>, value |-> FALSE]

\* A connection request: its position, operation, arguments and locals, its result.
NewHCall == [pc |-> "start", op |-> "none", user_id |-> "", wallet_id |-> 0,
             dapp_origin |-> "", permissions |-> <<>>, permission |-> "",
             connection_id |-> 0, result |-> HErr("none")]

\* The history of grants after a connect_dapp and after a disconnect_dapp.
Grant(g, user_id, wallet_id, dapp_origin, permissions) ==
    [t \in DOMAIN g \cup {<<user_id, wallet_id, dapp_origin>>} |->
        IF t = <<user_id, wallet_id, dapp_origin>> THEN permissions ELSE g[t]]
Revoke(g, coll, connection_id, user_id) ==
    IF connection_id \in DOMAIN coll /\ coll[connection_id].user_id = user_id
    THEN [t \in DOMAIN g \ {<<coll[connection_id].user_id, coll[connection_id].wallet_id,
                              coll[connection_id].dapp_origin>>} |-> g[t]]
    ELSE g

\* ---- the handlers run to completion (HestiaSpec): one action is one whole
\* call, its result left in request slot 1.

\* connect_dapp; existing is the document its find_one returns.
ConnectDappAs(user_id, wallet_id, dapp_origin, dapp_name, dapp_icon, requested_permissions) ==
    /\ LET found == FindConnection(dapp_connections, user_id, wallet_id, dapp_origin)
       IN IF found # {}
          THEN \E existing \in found :
                  /\ dapp_connections' =
                         SetLastUsed(SetPermissions(dapp_connections, existing,
                                                    requested_permissions),
                                     existing, now)
                  /\ hcalls' = [hcalls EXCEPT ![1] =
                         [NewHCall EXCEPT !.pc = "done", !.op = "connect",
                                          !.user_id = user_id, !.wallet_id = wallet_id,
                                          !.dapp_origin = dapp_origin,
                                          !.permissions = requested_permissions,
                                          !.connection_id = existing,
                                          !.result = HOk(existing, requested_permissions)]]
                  /\ UNCHANGED uuids
          ELSE /\ uuids < MaxConnections
               /\ uuids' = uuids + 1
               /\ dapp_connections' =
                      InsertConnection(dapp_connections, uuids + 1,
                          NewConnection(user_id, wallet_id, dapp_origin, dapp_name,
                                        dapp_icon, requested_permissions, now))
               /\ hcalls' = [hcalls EXCEPT ![1] =
                      [NewHCall EXCEPT !.pc = "done", !.op = "connect",
                                       !.user_id = user_id, !.wallet_id = wallet_id,
                                       !.dapp_origin = dapp_origin,
                                       !.permissions = requested_permissions,
                                       !.connection_id = uuids + 1,
                                       !.result = HOk(uuids + 1, requested_permissions)]]
    /\ granted' = Grant(granted, user_id, wallet_id, dapp_origin, requested_permissions)
    /\ UNCHANGED <<pending_transactions, calls, wallets, zcalls, now, last_auth, cacheVars>>

\* connect_dapp with the fixed dapp_name and dapp_icon
ConnectDapp(user_id, wallet_id, dapp_origin, requested_permissions) ==
    ConnectDappAs(user_id, wallet_id, dapp_origin, DappName, DappIcon, requested_permissions)

\* disconnect_dapp
DisconnectDapp(user_id, connection_id) ==
    /\ dapp_connections' = DeleteConnection(dapp_connections, connection_id, user_id)
    /\ hcalls' = [hcalls EXCEPT ![1] =
           [NewHCall EXCEPT !.pc = "done", !.op = "disconnect", !.user_id = user_id,
                            !.connection_id = connection_id, !.result = HOk(0, <<>>)]]
    /\ granted' = Revoke(granted, dapp_connections, connection_id, user_id)
    /\ UNCHANGED <<pending_transactions, calls, wallets, zcalls, now, uuids, last_auth, cacheVars>>

\* has_permission
HasPermissionCall(user_id, wallet_id, dapp_origin, permission) ==
    /\ \E answer \in HasPermission(dapp_connections, user_id, wallet_id, dapp_origin,
                                   permission) :
           hcalls' = [hcalls EXCEPT ![1] =
               [NewHCall EXCEPT !.pc = "done", !.op = "has_permission",
                                !.user_id = user_id, !.wallet_id = wallet_id,
                                !.dapp_origin = dapp_origin, !.permission = permission,
                                !.result = HBool(answer)]]
    /\ UNCHANGED <<pending_transactions, calls, wallets, zcalls, now, uuids, last_auth,
                   dapp_connections, granted, cacheVars>>

HestiaInit ==
    /\ dapp_connections = <<>>
    /\ hcalls = [c \in HCalls |-> NewHCall]
    /\ granted = <<>>
    /\ uuids = 0
    /\ pending_transactions = <<>>
    /\ calls = <<>>
    /\ wallets = <<>>
    /\ zcalls = <<>>
    /\ now = 0
    /\ last_auth = <<>>
    /\ CacheIdle

HestiaNext ==
    \/ \E u \in Users, w \in ConnectionWallets, o \in Origins, ps \in PermissionLists :
           ConnectDapp(u, w, o, ps)
    \/ \E u \in Users, id \in ConnectionIds : DisconnectDapp(u, id)
    \/ \E u \in Users, w \in ConnectionWallets, o \in Origins, p \in Permission :
           HasPermissionCall(u, w, o, p)

HestiaSpec == HestiaInit /\ [][HestiaNext]_vars

\* ---------------------------------------------------------------- claim C17
\* A connection for the triple is live and p is in the list of its last connect.
IsGranted(user_id, wallet_id, dapp_origin, p) ==
    /\ <<user_id, wallet_id, dapp_origin>> \in DOMAIN granted
    /\ Contains(granted[<<user_id, wallet_id, dapp_origin>>], p)

\* C17: after any sequence of completed connect_dapp and disconnect_dapp
\* calls, has_permission(user, wallet, origin, p) answers true exactly when a
\* connection for the triple is live and p is in the permission list of the
\* last connect_dapp for the triple.
C17_HasPermissionExact ==
    /\ hcalls[1].op = "has_permission"
          => hcalls[1].result = HBool(IsGranted(hcalls[1].user_id, hcalls[1].wallet_id,
                                                hcalls[1].dapp_origin, hcalls[1].permission))
    /\ \A u \in Users, w \in ConnectionWallets, o \in Origins, p \in Permission :
          HasPermission(dapp_connections, u, w, o, p) = {IsGranted(u, w, o, p)}

\* C17 witness: has_permission answered true for RequestTransaction on a live
\* connection, while the store holds the records of two triples.
C17_Witness ==
    /\ hcalls[1].op = "has_permission"
    /\ hcalls[1].permission = RequestTransaction
    /\ hcalls[1].result = HBool(TRUE)
    /\ <<hcalls[1].user_id, hcalls[1].wallet_id, hcalls[1].dapp_origin>> \in DOMAIN granted
    /\ Cardinality(DOMAIN dapp_connections) >= 2

\* ---- the handlers as sequences of store operations (HestiaConcSpec): each
\* request c runs once, and requests interleave between store operations.
HOther == <<pending_transactions, calls, wallets, zcalls, now, last_auth, granted, cacheVars>>

\* connect_dapp: find_one
ConnectFind(c, user_id, wallet_id, dapp_origin, requested_permissions) ==
    /\ hcalls[c].pc = "start"
    /\ LET found == FindConnection(dapp_connections, user_id, wallet_id, dapp_origin)
           call == [NewHCall EXCEPT !.op = "connect", !.user_id = user_id,
                                    !.wallet_id = wallet_id, !.dapp_origin = dapp_origin,
                                    !.permissions = requested_permissions]
       IN IF found # {}
          THEN \E existing \in found :
                  /\ hcalls' = [hcalls EXCEPT ![c] =
                         [call EXCEPT !.pc = "connect_update", !.connection_id = existing]]
                  /\ UNCHANGED uuids
          ELSE /\ uuids < MaxConnections
               /\ uuids' = uuids + 1
               /\ hcalls' = [hcalls EXCEPT ![c] =
                      [call EXCEPT !.pc = "connect_insert", !.connection_id = uuids + 1]]
    /\ UNCHANGED dapp_connections
    /\ UNCHANGED HOther

\* connect_dapp: update_one on the document found
ConnectUpdate(c) ==
    /\ hcalls[c].pc = "connect_update"
    /\ dapp_connections' =
           SetLastUsed(SetPermissions(dapp_connections, hcalls[c].connection_id,
                                      hcalls[c].permissions),
                       hcalls[c].connection_id, now)
    /\ hcalls' = [hcalls EXCEPT ![c].pc = "done",
                                ![c].result = HOk(hcalls[c].connection_id,
                                                  hcalls[c].permissions)]
    /\ UNCHANGED uuids
    /\ UNCHANGED HOther

\* connect_dapp: insert_one of the new document
ConnectInsert(c) ==
    /\ hcalls[c].pc = "connect_insert"
    /\ dapp_connections' =
           InsertConnection(dapp_connections, hcalls[c].connection_id,
               NewConnection(hcalls[c].user_id, hcalls[c].wallet_id,
                             hcalls[c].dapp_origin, DappName, DappIcon,
                             hcalls[c].permissions, now))
    /\ hcalls' = [hcalls EXCEPT ![c].pc = "done",
                                ![c].result = HOk(hcalls[c].connection_id,
                                                  hcalls[c].permissions)]
    /\ UNCHANGED uuids
    /\ UNCHANGED HOther

\* disconnect_dapp: its one delete_one
DisconnectDelete(c, user_id, connection_id) ==
    /\ hcalls[c].pc = "start"
    /\ dapp_connections' = DeleteConnection(dapp_connections, connection_id, user_id)
    /\ hcalls' = [hcalls EXCEPT ![c] =
           [NewHCall EXCEPT !.pc = "done", !.op = "disconnect", !.user_id = user_id,
                            !.connection_id = connection_id, !.result = HOk(0, <<>>)]]
    /\ UNCHANGED uuids
    /\ UNCHANGED HOther

HestiaConcNext ==
    \E c \in HCalls :
        \/ \E u \in Users, w \in ConnectionWallets, o \in Origins, ps \in PermissionLists :
               ConnectFind(c, u, w, o, ps)
        \/ ConnectUpdate(c)
        \/ ConnectInsert(c)
        \/ \E u \in Users, id \in ConnectionIds : DisconnectDelete(c, u, id)

HestiaConcSpec == HestiaInit /\ [][HestiaConcNext]_vars

\* ---------------------------------------------------------------- claim C18
\* C18: in every reachable state, also with connect_dapp calls for one triple
\* interleaved, the store holds at most one connection record per
\* (user, wallet, origin).
C18_OneConnectionPerTriple ==
    \A u \in Users, w \in ConnectionWallets, o \in Origins :
        Cardinality(FindConnection(dapp_connections, u, w, o)) <= 1

\* ---- connections and transactions together (AuthzSpec): the calls of the
\* connection manager and of the transaction manager, on one store.
AuthzInit ==
    /\ TxInit
    /\ dapp_connections = <<>>
    /\ hcalls = [c \in HCalls |-> NewHCall]
    /\ granted = <<>>
    /\ uuids = 0
    /\ wallets = <<>>
    /\ zcalls = <<>>
    /\ now = 0
    /\ last_auth = <<>>
    /\ CacheIdle

AuthzNext ==
    \/ \E ps \in PermissionLists : ConnectDapp("u1", 1, "https://dapp.example", ps)
    \/ \E id \in ConnectionIds : DisconnectDapp("u1", id)
    \/ \E c \in Calls, u \in Users :
           CreateTransaction(c, u, 1, "https://dapp.example", UnsignedBlob)
    \/ \E c \in Calls, id \in Calls, u \in Users : SignFind(c, id, u, 1)
    \/ \E c \in Calls : SignUpdate(c)

AuthzSpec == AuthzInit /\ [][AuthzNext]_vars

\* -------------------------------------------------------- claims C15, C16
\* The record's origin holds RequestTransaction for the record's user and
\* wallet: has_permission can answer true.
OriginMayRequest(tx) ==
    TRUE \in HasPermission(dapp_connections, tx.user_id, tx.wallet_id, tx.dapp_origin,
                           RequestTransaction)

\* C15: a record becomes Signed only while a connection for the record's
\* (user, wallet, origin) holds RequestTransaction; after a disconnect, or a
\* reconnect without RequestTransaction, signing does not happen.
C15_SignedOnlyWithPermission ==
    [][\A id \in DOMAIN pending_transactions :
          (pending_transactions[id].status # Signed
              /\ pending_transactions'[id].status = Signed)
          => OriginMayRequest(pending_transactions[id])]_vars

\* C16: a Pending record is stored for a request only if has_permission(user,
\* wallet, origin, RequestTransaction) is true at that time; a request for an
\* origin with no connection, or with one lacking RequestTransaction, stores
\* nothing.
C16_CreateOnlyWithPermission ==
    [][\A id \in DOMAIN pending_transactions' :
          id \notin DOMAIN pending_transactions
          => OriginMayRequest(pending_transactions'[id])]_vars

\* ---- the private keys of the wallets (VaultSpec): wallets are created and
\* imported under passwords and salts, and their keys are asked for.

\* get_private_key: find_one by _id, then decrypt_private_key
GetPrivateKey(wallet_id, password) ==
    /\ zcalls' = [zcalls EXCEPT ![1] =
           [NewZCall EXCEPT !.pc = "done", !.op = "get_private_key",
                            !.wallet_id = wallet_id, !.password = password,
                            !.result = IF wallet_id \notin DOMAIN wallets
                                       THEN KErr(WalletNotFound)
                                       ELSE DecryptPrivateKey(
                                                wallets[wallet_id].encrypted_private_key,
                                                wallets[wallet_id].salt, password)]]
    /\ UNCHANGED <<pending_transactions, calls, wallets, now, uuids, last_auth, hestiaVars, cacheVars>>

VaultPasswords == {<<112, 119>>, <<112, 120>>}

VaultNext ==
    \/ \E pw \in VaultPasswords, salt \in Salts : CreateWallet("u1", pw, salt)
    \/ \E pw \in VaultPasswords, salt \in Salts :
           ImportWallet("u1", [decodes |-> TRUE, n |-> 1], pw, salt)
    \/ \E id \in WalletIds, pw \in Passwords : GetPrivateKey(id, pw)

VaultSpec == ZeusInit /\ [][VaultNext]_vars

\* -------------------------------------------------------- claims C11, C12
WrongPassword == "WrongPassword"

\* C11: get_private_key called with a password other than the one the wallet
\* was encrypted with fails with WrongPassword and returns no key bytes.
C11_WrongPasswordFails ==
    (/\ zcalls[1].op = "get_private_key"
     /\ zcalls[1].wallet_id \in DOMAIN wallets
     /\ zcalls[1].password # wallets[zcalls[1].wallet_id].password)
    => /\ ~zcalls[1].result.ok
       /\ zcalls[1].result.err = WrongPassword
       /\ zcalls[1].result.bytes = <<>>

\* C12: for every key, password and salt, decrypt_private_key on the stored
\* ciphertext and salt with the password of the encryption returns exactly the
\* key bytes: of every stored wallet, and of the last get_private_key call when
\* it was given the wallet's password.
C12_RoundTrip ==
    /\ \A id \in DOMAIN wallets :
          DecryptPrivateKey(wallets[id].encrypted_private_key, wallets[id].salt,
                            wallets[id].password)
              = KOk(KeypairBytes(wallets[id].pubkey))
    /\ (/\ zcalls[1].op = "get_private_key"
        /\ zcalls[1].wallet_id \in DOMAIN wallets
        /\ zcalls[1].password = wallets[zcalls[1].wallet_id].password)
       => zcalls[1].result = KOk(KeypairBytes(wallets[zcalls[1].wallet_id].pubkey))

\* C12 witness: get_private_key returned the key of an imported wallet whose
\* key was encrypted under the second salt, given the wallet's password.
C12_Witness ==
    /\ zcalls[1].op = "get_private_key"
    /\ zcalls[1].wallet_id \in DOMAIN wallets
    /\ zcalls[1].password = wallets[zcalls[1].wallet_id].password
    /\ wallets[zcalls[1].wallet_id].pubkey.kind = "imported"
    /\ wallets[zcalls[1].wallet_id].salt = HexEncode(<<171>>)
    /\ zcalls[1].result.ok
    /\ zcalls[1].result.bytes = KeypairBytes(wallets[zcalls[1].wallet_id].pubkey)

\* ---- the wallet and transaction handlers of the HTTP interface (ApiSpec)
NotImplemented == "Transaction signing requires wallet decryption - not yet implemented"

\* The X-Shadow-Auth headers of the requests: a fresh header each wallet's
\* owner signed, and no header.
ApiHeaders ==
    {[form |-> "json", wallet |-> w,
      signature |-> SignatureBy(w, w, FreshnessWindow), timestamp |-> FreshnessWindow] :
        w \in {"walletA", "walletB"}}
    \cup {NoHeader("missing")}

\* wallet_handlers::create_wallet: verify_auth, then the manager's create_wallet
HandleCreateWallet(header, body, salt, overflow_checks) ==
    IF VerifyAuth(header, now, overflow_checks).ok
    THEN CreateWallet(VerifyAuth(header, now, overflow_checks).user_id, body.password, salt)
    ELSE /\ zcalls' = [zcalls EXCEPT ![1] =
                ZDone("create", ZErr(VerifyAuth(header, now, overflow_checks).err))]
         /\ UNCHANGED <<pending_transactions, calls, wallets, now, uuids, last_auth,
                        hestiaVars, cacheVars>>

\* wallet_handlers::sign_transaction as request c's whole run: verify_auth,
\* get_transaction, then the error it always returns.
HandleSignTransaction(c, header, body, overflow_checks) ==
    /\ calls[c].pc = "start"
    /\ \A d \in Calls : d < c => calls[d].pc = "done"
    /\ LET auth == VerifyAuth(header, now, overflow_checks)
           answer(e) == [pc |-> "done", op |-> "sign",
                         transaction_id |-> body.transaction_id,
                         saw |-> IF auth.ok /\ FindTransaction(body.transaction_id,
                                                               auth.user_id) # {}
                                 THEN pending_transactions[body.transaction_id].status
                                 ELSE "",
                         result |-> ErrResult(e)]
       IN calls' = [calls EXCEPT ![c] =
              IF ~auth.ok THEN answer(auth.err)
              ELSE IF GetTransaction(body.transaction_id, auth.user_id) = {}
              THEN answer(TransactionNotFound)
              ELSE answer(NotImplemented)]
    /\ UNCHANGED <<pending_transactions, wallets, zcalls, now, uuids, last_auth, hestiaVars, cacheVars>>

SignBodies == [transaction_id : Calls, password : Passwords]

ApiInit ==
    /\ TxInit
    /\ wallets = <<>>
    /\ zcalls = [c \in ZCalls |-> NewZCall]
    /\ now = 0
    /\ uuids = 0
    /\ last_auth = NoAuth
    /\ HestiaIdle
    /\ CacheIdle

ApiNext ==
    \/ \E h \in ApiHeaders, oc \in BOOLEAN :
           HandleCreateWallet(h, [password |-> ZeusPassword], ZeusSalt, oc)
    \/ \E c \in Calls, h \in ApiHeaders, b \in Bodies, oc \in BOOLEAN :
           HandleCreateTransaction(c, h, b, oc)
    \/ \E c \in Calls, h \in ApiHeaders, b \in SignBodies, oc \in BOOLEAN :
           HandleSignTransaction(c, h, b, oc)

ApiSpec == ApiInit /\ [][ApiNext]_vars

\* -------------------------------------------------------- claims C13, C14
\* The request is an authenticated owner's approve-and-sign request for one of
\* their Pending transactions, whose wallet is a wallet of the store.
OwnPendingSignRequest(h, b, oc) ==
    /\ VerifyAuth(h, now, oc).ok
    /\ SignatureValidFor(h.signature, h.wallet, h.timestamp)
    /\ FindTransaction(b.transaction_id, h.wallet) # {}
    /\ StatusOf(b.transaction_id) = Pending
    /\ pending_transactions[b.transaction_id].wallet_id \in DOMAIN wallets

\* C13: an approve-and-sign request of the owner for a Pending transaction
\* with a password that is not the wallet's returns WrongPassword with no
\* signed blob and leaves the transaction Pending.
C13_WrongPasswordKeepsPending ==
    [][\A c \in Calls, h \in ApiHeaders, b \in SignBodies, oc \in BOOLEAN :
          (/\ HandleSignTransaction(c, h, b, oc)
           /\ OwnPendingSignRequest(h, b, oc)
           /\ b.password # wallets[pending_transactions[b.transaction_id].wallet_id].password)
          => /\ calls'[c].result = ErrResult(WrongPassword)
             /\ pending_transactions'[b.transaction_id].status = Pending]_vars

\* C14: an approve-and-sign request of the owner for a Pending transaction
\* with the wallet's password returns the signed blob, and the record becomes
\* Signed.
C14_SignThroughHandler ==
    [][\A c \in Calls, h \in ApiHeaders, b \in SignBodies, oc \in BOOLEAN :
          (/\ HandleSignTransaction(c, h, b, oc)
           /\ OwnPendingSignRequest(h, b, oc)
           /\ b.password = wallets[pending_transactions[b.transaction_id].wallet_id].password)
          => /\ calls'[c].result.ok
             /\ calls'[c].result.signed_transaction # {}
             /\ pending_transactions'[b.transaction_id].status = Signed]_vars

\* --------------------------------------------------------- claims C21, C22
\* C21: reject_transaction and sign_transaction called with a user_id that is
\* not the record's owner return an error, not success, and leave the record as
\* it was.
C21_NonOwnerRefused ==
    [][\A c \in Calls, id \in Calls, u \in Users, k \in PrivateKeys :
          (/\ id \in DOMAIN pending_transactions
           /\ pending_transactions[id].user_id # u
           /\ (RejectTransaction(c, id, u) \/ SignFind(c, id, u, k)))
          => /\ ~calls'[c].result.ok
             /\ calls'[c].pc = "done"
             /\ pending_transactions'[id] = pending_transactions[id]]_vars

\* C22: when sign_transaction fails because the signed transaction cannot be
\* serialized, the record is left in status Failed.
C22_SerializeFailureMarksFailed ==
    [][\A c \in Calls, id \in Calls, u \in Users, k \in PrivateKeys :
          (/\ SignFind(c, id, u, k)
           /\ calls'[c].result = ErrResult(FailedToSerialize))
          => pending_transactions'[id].status = Failed]_vars

\* ------------------------------------------------------------ claims C23-C28
\* C23: create_wallet marks the new wallet active if and only if the user owned
\* no wallet before the call, returns that flag, and leaves every wallet stored
\* before the call (the previously active one included) as it was.
C23_CreateActiveIffFirst ==
    [][\A u \in Users :
          (zcalls'[1].op = "create" /\ CreateWallet(u, ZeusPassword, ZeusSalt))
          => LET id == zcalls'[1].result.id
                 first == UserWallets(wallets, u) = {}
             IN /\ zcalls'[1].result = ZOk(id, first)
                /\ id \in DOMAIN wallets' \ DOMAIN wallets
                /\ wallets'[id].user_id = u
                /\ wallets'[id].is_active = first
                /\ \A w \in DOMAIN wallets : wallets'[w] = wallets[w]]_vars

\* C23 witness: a create_wallet just returned is_active = false and stored an
\* inactive wallet for a user whose earlier, generated wallet is still active.
C23_Witness ==
    /\ zcalls[1].op = "create"
    /\ zcalls[1].result.ok
    /\ ~zcalls[1].result.is_active
    /\ LET id == zcalls[1].result.id
       IN /\ id \in DOMAIN wallets
          /\ ~wallets[id].is_active
          /\ \E w \in UserWallets(wallets, wallets[id].user_id) :
                 w < id /\ wallets[w].is_active /\ wallets[w].pubkey = GeneratedPubkey(w)

\* C24: import_wallet of a key whose public key is not stored marks the imported
\* wallet active if and only if it is the user's first wallet, as create_wallet
\* does.
C24_ImportActiveIffFirst ==
    [][\A u \in Users, k \in ImportKeys :
          (/\ ImportWallet(u, k, ZeusPassword, ZeusSalt)
           /\ k.decodes
           /\ FindByPubkey(wallets, ImportedPubkey(k.n)) = {})
          => LET id == zcalls'[1].result.id
                 first == UserWallets(wallets, u) = {}
             IN /\ zcalls'[1].result = ZOk(id, first)
                /\ id \in DOMAIN wallets' \ DOMAIN wallets
                /\ wallets'[id].is_active = first]_vars

\* C25: no two wallet records hold the same public key, whatever the
\* interleaving of the requests.
C25_UniquePubkey ==
    \A w1 \in DOMAIN wallets, w2 \in DOMAIN wallets :
        w1 # w2 => wallets[w1].pubkey # wallets[w2].pubkey

\* ---- requests interleaving on a store that already holds wallets
\* (ZeusStoredSpec): the store two completed create_wallet calls of u1 leave.
StoredWallets ==
    LET first == InsertOne(<<>>, 1,
                     NewWallet("u1", GeneratedPubkey(1), ZeusPassword, ZeusSalt,
                               FirstWallet(<<>>, "u1")))
    IN InsertOne(first, 2,
           NewWallet("u1", GeneratedPubkey(2), ZeusPassword, ZeusSalt,
                     FirstWallet(first, "u1")))

ZeusStoredInit ==
    /\ wallets = StoredWallets
    /\ uuids = 2
    /\ zcalls = [c \in ZCalls |-> NewZCall]
    /\ pending_transactions = <<>>
    /\ calls = <<>>
    /\ now = 0
    /\ last_auth = <<>>
    /\ HestiaIdle
    /\ CacheIdle

ZeusStoredSpec == ZeusStoredInit /\ [][ZeusConcNext]_vars

\* C26: delete_wallet called on the user's only wallet returns
\* CannotDeleteSoleWallet and leaves the store unchanged, and over any
\* interleaving of requests a user who owns a wallet still owns one after every
\* step.
C26_KeepsLastWallet ==
    [][/\ \A u \in Users :
             UserWallets(wallets, u) # {} => UserWallets(wallets', u) # {}
       /\ \A c \in ZCalls :
             (DeleteCount(c) /\ CountDocuments(wallets, zcalls[c].user_id) = 1)
             => /\ zcalls'[c].result = ZErr(CannotDeleteSoleWallet)
                /\ wallets' = wallets]_vars

\* C27: after delete_wallet succeeds on the user's active wallet exactly one of
\* the user's remaining wallets is active; after it succeeds on an inactive
\* wallet the active flag of every remaining wallet is as before.
C27_DeleteReassignsActive ==
    [][\A u \in Users, id \in WalletIds, n \in WalletIds :
          (/\ zcalls'[1].op = "delete" /\ zcalls'[1].result.ok
           /\ zcalls'[1].user_id = u /\ zcalls'[1].wallet_id = id
           /\ DeleteWallet(u, id, n))
          => /\ DOMAIN wallets' = DOMAIN wallets \ {id}
             /\ IF wallets[id].is_active
                THEN Cardinality({w \in UserWallets(wallets', u) : wallets'[w].is_active}) = 1
                ELSE \A w \in DOMAIN wallets' :
                        wallets'[w].is_active = wallets[w].is_active]_vars

\* C27 witness: a delete_wallet just succeeded on a wallet that was active, and
\* the user is left with several wallets, one of them active.
C27_Witness ==
    /\ zcalls[1].op = "delete"
    /\ zcalls[1].result.ok
    /\ zcalls[1].is_active
    /\ zcalls[1].wallet_id \notin DOMAIN wallets
    /\ Cardinality(UserWallets(wallets, zcalls[1].user_id)) >= 2
    /\ Cardinality(ActiveWallets(zcalls[1].user_id)) = 1

\* C28: set_active_wallet and delete_wallet called with a wallet_id that does
\* not exist or belongs to another user return WalletNotFound and change
\* nothing; no call of either changes or removes a wallet of a different user,
\* and neither adds a wallet.
C28_ScopedToUser ==
    [][\A u \in Users, id \in WalletIds, n \in WalletIds :
          (/\ zcalls'[1].op \in {"set_active", "delete"}
           /\ zcalls'[1].user_id = u /\ zcalls'[1].wallet_id = id
           /\ (SetActiveWallet(u, id) \/ DeleteWallet(u, id, n)))
          => /\ (id \notin DOMAIN wallets \/ wallets[id].user_id # u)
                   => /\ zcalls'[1].result = ZErr(WalletNotFound)
                      /\ wallets' = wallets
             /\ DOMAIN wallets' \subseteq DOMAIN wallets
             /\ \A w \in DOMAIN wallets :
                    wallets[w].user_id # u
                       => w \in DOMAIN wallets' /\ wallets'[w] = wallets[w]]_vars

\* C28 witness: a set_active_wallet or delete_wallet just answered
\* WalletNotFound for a stored wallet of another user, who owns several wallets,
\* one of them active.
C28_Witness ==
    /\ zcalls[1].op \in {"set_active", "delete"}
    /\ zcalls[1].result = ZErr(WalletNotFound)
    /\ zcalls[1].wallet_id \in DOMAIN wallets
    /\ wallets[zcalls[1].wallet_id].user_id # zcalls[1].user_id
    /\ wallets[zcalls[1].wallet_id].is_active
    /\ Cardinality(UserWallets(wallets, wallets[zcalls[1].wallet_id].user_id)) >= 2

\* --------------------------------------------------------- claims C29, C30
\* C29: has_permission answers Ok(false) for every permission when no
\* connection exists for the triple; after the owner's disconnect_dapp of a
\* connection no connection exists for its triple and has_permission is false
\* for every permission, and that lasts until a connect_dapp for the triple.
C29_NoConnectionNoPermission ==
    [][/\ \A u \in Users, w \in ConnectionWallets, o \in Origins, p \in Permission :
             (/\ hcalls'[1].op = "has_permission"
              /\ hcalls'[1].user_id = u /\ hcalls'[1].wallet_id = w
              /\ hcalls'[1].dapp_origin = o /\ hcalls'[1].permission = p
              /\ HasPermissionCall(u, w, o, p)
              /\ FindConnection(dapp_connections, u, w, o) = {})
             => hcalls'[1].result = HBool(FALSE)
       /\ \A u \in Users, id \in ConnectionIds :
             (/\ hcalls'[1].op = "disconnect"
              /\ hcalls'[1].user_id = u /\ hcalls'[1].connection_id = id
              /\ DisconnectDapp(u, id)
              /\ id \in DOMAIN dapp_connections
              /\ dapp_connections[id].user_id = u)
             => LET conn == dapp_connections[id]
                IN /\ FindConnection(dapp_connections', conn.user_id, conn.wallet_id,
                                     conn.dapp_origin) = {}
                   /\ \A p \in Permission :
                          HasPermission(dapp_connections', conn.user_id, conn.wallet_id,
                                        conn.dapp_origin, p) = {FALSE}
       /\ \A u \in Users, w \in ConnectionWallets, o \in Origins :
             (/\ dapp_connections' # dapp_connections
              /\ FindConnection(dapp_connections, u, w, o) = {}
              /\ ~(/\ hcalls'[1].op = "connect" /\ hcalls'[1].user_id = u
                    /\ hcalls'[1].wallet_id = w /\ hcalls'[1].dapp_origin = o))
             => FindConnection(dapp_connections', u, w, o) = {}]_vars

\* C29 witness: the owner's disconnect_dapp just removed a connection that had
\* been made, while a connection of another triple that grants
\* RequestTransaction is still stored.
C29_Witness ==
    /\ hcalls[1].op = "disconnect"
    /\ hcalls[1].connection_id \in 1..uuids
    /\ hcalls[1].connection_id \notin DOMAIN dapp_connections
    /\ \A u \in Users, w \in ConnectionWallets, o \in Origins :
          <<u, w, o>> \notin DOMAIN granted
             => FindConnection(dapp_connections, u, w, o) = {}
    /\ Cardinality(DOMAIN granted) < uuids
    /\ \E id \in DOMAIN dapp_connections :
          Contains(dapp_connections[id].permissions, RequestTransaction)

\* C30: disconnect_dapp deletes the connection, and nothing else, when user_id
\* is its stored owner; issued by any other user, or for an id that is not
\* stored, it leaves every connection record and every has_permission answer
\* as it was.
C30_DisconnectOwnerOnly ==
    [][\A u \in Users, id \in ConnectionIds :
          (/\ hcalls'[1].op = "disconnect"
           /\ hcalls'[1].user_id = u /\ hcalls'[1].connection_id = id
           /\ DisconnectDapp(u, id))
          => IF id \in DOMAIN dapp_connections /\ dapp_connections[id].user_id = u
             THEN /\ DOMAIN dapp_connections' = DOMAIN dapp_connections \ {id}
                  /\ \A i \in DOMAIN dapp_connections' :
                         dapp_connections'[i] = dapp_connections[i]
             ELSE /\ dapp_connections' = dapp_connections
                  /\ \A v \in Users, w \in ConnectionWallets, o \in Origins,
                        p \in Permission :
                         HasPermission(dapp_connections', v, w, o, p)
                            = HasPermission(dapp_connections, v, w, o, p)]_vars

\* C30 witness: a disconnect_dapp just returned for a connection of another
\* user, which is still stored and grants RequestTransaction.
C30_Witness ==
    /\ hcalls[1].op = "disconnect"
    /\ hcalls[1].connection_id \in DOMAIN dapp_connections
    /\ dapp_connections[hcalls[1].connection_id].user_id # hcalls[1].user_id
    /\ Contains(dapp_connections[hcalls[1].connection_id].permissions, RequestTransaction)
    /\ IsGranted(dapp_connections[hcalls[1].connection_id].user_id,
                 dapp_connections[hcalls[1].connection_id].wallet_id,
                 dapp_connections[hcalls[1].connection_id].dapp_origin, RequestTransaction)

\* ---------------------------------------------------------------- claim C31
\* The signature or the public key is malformed: one of verify_signature's
\* parsing steps refuses it.
Malformed(signature, pubkey) ==
    \/ ~signature.decodes \/ ~signature.canonical
    \/ ~PubkeyParses(pubkey) \/ ~PubkeyOnCurve(pubkey)

\* C31: for a malformed signature or public key verify_signature (reached
\* through verify_challenge) returns an error, never Ok(true) or Ok(false), and
\* verify_auth never accepts a request that carries such a value: it returns no
\* user id.
C31_FailsClosed ==
    /\ (last_auth.fn = "verify_challenge" /\ Malformed(last_auth.signature, last_auth.wallet))
          => /\ ~last_auth.result.ok
             /\ ~last_auth.result.value
             /\ last_auth.result.err \in {InvalidSignatureEncoding, InvalidPubkey,
                                          InvalidPublicKey, InvalidSignature}
    /\ (/\ last_auth.fn = "verify_auth" /\ last_auth.form = "json"
         /\ Malformed(last_auth.signature, last_auth.wallet))
          => /\ ~last_auth.outcome.ok
             /\ last_auth.outcome.user_id = ""
             /\ last_auth.result # Panicked => last_auth.outcome = AErr(Unauthorized)

\* C31 witness: verify_auth answered Unauthorized to a header with a fresh
\* timestamp whose signature text does not decode, verify_signature having
\* returned the encoding error.
C31_Witness ==
    /\ last_auth.fn = "verify_auth"
    /\ last_auth.form = "json"
    /\ ~last_auth.signature.decodes
    /\ PubkeyParses(last_auth.wallet) /\ PubkeyOnCurve(last_auth.wallet)
    /\ Abs(last_auth.at - last_auth.timestamp) <= FreshnessWindow
    /\ last_auth.result = VErr(InvalidSignatureEncoding)
    /\ last_auth.outcome = AErr(Unauthorized)

\* ---------------------------------------------------------------- claim C32
\* C32: no step of create_transaction, sign_transaction, reject_transaction,
\* get_pending_transactions or get_transaction removes a record: the set of
\* stored transaction ids never loses an element.
C32_NeverDeleted ==
    [][DOMAIN pending_transactions \subseteq DOMAIN pending_transactions']_vars

\* C32 witness: the store holds a Rejected record after its owner's
\* reject_transaction, next to another record, and a get_transaction has read
\* one of them.
C32_Witness ==
    /\ Cardinality(DOMAIN pending_transactions) >= 2
    /\ \E c \in Calls :
          /\ calls[c].pc = "done" /\ calls[c].op = "reject" /\ calls[c].saw = Pending
          /\ calls[c].transaction_id \in DOMAIN pending_transactions
          /\ StatusOf(calls[c].transaction_id) = Rejected

\* ---------------------------------------------------------------- claim C34
\* C34: for a record in status Signed, get_transaction returns as
\* signed_transaction the signed blob that the sign_transaction call which
\* signed it returned.
C34_GetReturnsSignedBlob ==
    \A c1 \in Calls, c2 \in Calls :
        (/\ calls[c1].pc = "done" /\ calls[c1].op = "get" /\ calls[c1].found
         /\ calls[c1].result.status = Signed
         /\ calls[c2].pc = "done" /\ calls[c2].op = "sign" /\ calls[c2].result.ok
         /\ calls[c2].transaction_id = calls[c1].transaction_id)
        => calls[c1].result.signed_transaction = calls[c2].result.signed_transaction

\* -------------------------------------------------------------- hephaestus
\* evict_if_needed: max_size_bytes = self.max_size_mb * 1_048_576
Mebibyte == 1048576
\* HephaestusCache::new(max_size_mb, default_ttl_seconds): the arguments.
MaxSizeMb == 1
DefaultTtl == 3600
MaxSizeBytes == MaxSizeMb * Mebibyte
\* Number of cache operations in one run.
MaxCacheOps == 3

CacheKeys == {"a", "b", "c"}

\* content: Vec<u8>, by its bytes (id) and its length: half the limit (two
\* contents), the limit, and one byte more than the limit.
Contents ==
    {[id |-> 1, len |-> MaxSizeBytes \div 2], [id |-> 2, len |-> MaxSizeBytes],
     [id |-> 3, len |-> MaxSizeBytes + 1], [id |-> 4, len |-> MaxSizeBytes \div 2]}
ContentTypes == {"text/plain"}

\* ttl: Option<Duration>.  None takes default_ttl; a Duration beyond chrono's
\* range makes Duration::from_std fail; one within it but beyond DateTime's range
\* makes `now + duration` panic.
Ttls == {[kind |-> "none", secs |-> 0], [kind |-> "some", secs |-> 1],
         [kind |-> "out_of_range", secs |-> 0], [kind |-> "overflowing", secs |-> 0]}

\* generate_etag: the SHA-256 of the content, in hex between quotes
GenerateEtag(content) == [sha256 |-> content.id]

\* sum of e.content.size_bytes over the entries under keys
RECURSIVE SizeOfKeys(_, _)
SizeOfKeys(entries, keys) ==
    IF keys = {} THEN 0
    ELSE LET k == CHOOSE x \in keys : TRUE
         IN entries[k].size_bytes + SizeOfKeys(entries, keys \ {k})
CurrentSize(entries) == SizeOfKeys(entries, DOMAIN entries)

\* evict_if_needed's entries after sort_by on last_accessed: the keys in an
\* order of the map's iteration that the stable sort leaves, oldest access first.
SortedOrders(entries) ==
    LET n == Cardinality(DOMAIN entries)
    IN {o \in [1..n -> DOMAIN entries] :
           /\ \A i \in 1..n, j \in 1..n : i # j => o[i] # o[j]
           /\ \A i \in 1..n, j \in 1..n :
                  i < j => entries[o[i]].last_accessed <= entries[o[j]].last_accessed}

\* freed after the loop removed the first k keys of order
Freed(entries, order, k) == SizeOfKeys(entries, {order[i] : i \in 1..k})

\* The number of entries evict_if_needed's loop removes: it breaks after the
\* first removal that makes current_size - freed + new_size <= max_size_bytes,
\* and removes every entry when none does.
EvictCount(entries, order, new_size) ==
    LET fits == {k \in 1..Len(order) :
                    CurrentSize(entries) - Freed(entries, order, k) + new_size
                        <= MaxSizeBytes}
    IN IF fits = {} THEN Len(order)
       ELSE CHOOSE k \in fits : \A m \in fits : k <= m

\* evict_if_needed: the keys it removes, in the order of their removal
Evicted(entries, order, new_size) ==
    IF CurrentSize(entries) + new_size > MaxSizeBytes
    THEN SubSeq(order, 1, IF Len(order) = 0 THEN 0 ELSE EvictCount(entries, order, new_size))
    ELSE <<>>

EvictIfNeeded(entries, order, new_size) ==
    LET gone == {Evicted(entries, order, new_size)[i] :
                    i \in 1..Len(Evicted(entries, order, new_size))}
    IN [k \in DOMAIN entries \ gone |-> entries[k]]

\* cache.remove(key)
CacheRemove(entries, key) == [k \in DOMAIN entries \ {key} |-> entries[k]]

\* A cache.insert that keeps the entry already stored under the key.
CacheInsert_KeepExisting(entries, key, entry) ==
    [k \in DOMAIN entries \cup {key} |-> IF k \in DOMAIN entries THEN entries[k] ELSE entry]

\* cache.insert(key, entry)
CacheInsert(entries, key, entry) ==
    [k \in DOMAIN entries \cup {key} |-> IF k = key THEN entry ELSE entries[k]]

\* CachedContent and the CacheEntry around it, as set builds them at time t
NewCacheEntry(content, content_type, ttl_secs, t) ==
    [content |-> content, content_type |-> content_type, cached_at |-> t,
     expires_at |-> t + ttl_secs, etag |-> GenerateEtag(content),
     size_bytes |-> content.len, last_accessed |-> t, access_count |-> 0]

\* The CachedContent get clones out of an entry
CachedContent(entry) ==
    [content |-> entry.content, content_type |-> entry.content_type,
     cached_at |-> entry.cached_at, expires_at |-> entry.expires_at,
     etag |-> entry.etag, size_bytes |-> entry.size_bytes]

\* The counters, and the last operation: op, its key and content arguments, the
\* keys it evicted (history), and its result: an Option as a set for get, "ok",
\* "err" or "panic" for set, the CacheStats for get_stats.
NewCacheLog ==
    [ops |-> 0, hits |-> 0, misses |-> 0, op |-> "none", key |-> "", content |-> {},
     evicted |-> <<>>, result |-> {}]
CacheLog(op, key, content, evicted, result) ==
    [cache_log EXCEPT !.ops = @ + 1, !.op = op, !.key = key, !.content = content,
                      !.evicted = evicted, !.result = result]

CacheOther ==
    <<pending_transactions, calls, wallets, zcalls, uuids, last_auth, hestiaVars>>

\* HephaestusCache::get
CacheGet(key) ==
    /\ cache_log.ops < MaxCacheOps
    /\ IF key \in DOMAIN cache
       THEN IF now > cache[key].expires_at
            THEN /\ cache' = CacheRemove(cache, key)
                 /\ cache_log' = [CacheLog("get", key, {}, <<>>, {}) EXCEPT !.misses = @ + 1]
            ELSE /\ cache' = [cache EXCEPT ![key].last_accessed = now,
                                           ![key].access_count = @ + 1]
                 /\ cache_log' = [CacheLog("get", key, {}, <<>>,
                                           {CachedContent(cache[key])})
                                     EXCEPT !.hits = @ + 1]
       ELSE /\ cache' = cache
            /\ cache_log' = [CacheLog("get", key, {}, <<>>, {}) EXCEPT !.misses = @ + 1]
    /\ UNCHANGED now
    /\ UNCHANGED CacheOther

\* HephaestusCache::set; order is the order evict_if_needed's sort leaves.
CacheSet(key, content, content_type, ttl) ==
    /\ cache_log.ops < MaxCacheOps
    /\ \E order \in SortedOrders(cache) :
       LET evicted == Evicted(cache, order, content.len)
           kept == EvictIfNeeded(cache, order, content.len)
           secs == IF ttl.kind = "none" THEN DefaultTtl ELSE ttl.secs
       IN IF ttl.kind = "out_of_range"
          THEN /\ cache' = kept
               /\ cache_log' = CacheLog("set", key, {content}, evicted, "err")
          ELSE IF ttl.kind = "overflowing"
          THEN /\ cache' = kept
               /\ cache_log' = CacheLog("set", key, {content}, evicted, "panic")
          ELSE /\ cache' = CacheInsert(kept, key,
                                NewCacheEntry(content, content_type, secs, now))
               /\ cache_log' = CacheLog("set", key, {content}, evicted, "ok")
    /\ UNCHANGED now
    /\ UNCHANGED CacheOther

\* HephaestusCache::invalidate
CacheInvalidate(key) ==
    /\ cache_log.ops < MaxCacheOps
    /\ cache' = CacheRemove(cache, key)
    /\ cache_log' = CacheLog("invalidate", key, {}, <<>>, {})
    /\ UNCHANGED now
    /\ UNCHANGED CacheOther

\* HephaestusCache::clear
CacheClear ==
    /\ cache_log.ops < MaxCacheOps
    /\ cache' = <<>>
    /\ cache_log' = CacheLog("clear", "", {}, <<>>, {})
    /\ UNCHANGED now
    /\ UNCHANGED CacheOther

\* HephaestusCache::get_stats
CacheStats(entries, hits, misses) ==
    [total_entries |-> Cardinality(DOMAIN entries),
     total_size_mb |-> <<CurrentSize(entries), Mebibyte>>,
     total_accesses |-> SizeOfKeys([k \in DOMAIN entries |->
                                      [size_bytes |-> entries[k].access_count]],
                                  DOMAIN entries),
     hit_rate |-> IF hits + misses > 0 THEN <<hits, hits + misses>> ELSE <<0, 1>>]

GetStats ==
    /\ cache_log.ops < MaxCacheOps
    /\ cache_log' = CacheLog("get_stats", "", {}, <<>>,
                             CacheStats(cache, cache_log.hits, cache_log.misses))
    /\ UNCHANGED <<cache, now>>
    /\ UNCHANGED CacheOther

CacheInit ==
    /\ cache = <<>>
    /\ cache_log = NewCacheLog
    /\ pending_transactions = <<>>
    /\ calls = <<>>
    /\ wallets = <<>>
    /\ zcalls = <<>>
    /\ now = 0
    /\ uuids = 0
    /\ last_auth = <<>>
    /\ HestiaIdle

CacheNext ==
    \/ \E k \in CacheKeys : CacheGet(k)
    \/ \E k \in CacheKeys, c \in Contents, ct \in ContentTypes, ttl \in Ttls :
          CacheSet(k, c, ct, ttl)
    \/ \E k \in CacheKeys : CacheInvalidate(k)
    \/ CacheClear
    \/ GetStats
    \/ Tick

CacheSpec == CacheInit /\ [][CacheNext]_vars

\* ---------------------------------------------------------------- claim C33
\* C33: a get(key) that follows a successful set(key, content) with no cache
\* operation between them, at a time not after the entry's expiry, returns that
\* content; get_stats counts one entry per stored key; after clear() the cache
\* is empty and the next get returns None for every key.
C33_SetGetClear ==
    [][/\ \A k \in CacheKeys :
             (/\ cache_log.op = "set" /\ cache_log.result = "ok" /\ cache_log.key = k
              /\ cache_log'.op = "get"
              /\ CacheGet(k)
              /\ now <= cache[k].expires_at)
             => /\ Cardinality(cache_log'.result) = 1
                /\ \A r \in cache_log'.result :
                       /\ {r.content} = cache_log.content
                       /\ r.size_bytes = r.content.len
       /\ (cache_log'.op = "get_stats" /\ GetStats)
             => cache_log'.result.total_entries = Cardinality(DOMAIN cache)
       /\ (cache_log'.op = "clear" /\ CacheClear) => DOMAIN cache' = {}
       /\ \A k \in CacheKeys :
             (cache_log.op = "clear" /\ cache_log'.op = "get" /\ CacheGet(k))
             => cache_log'.result = {}]_vars

\* C33 witness: the third cache operation, a get, just returned the content
\* stored under its key, the first hit, while another key is stored too.
C33_Witness ==
    /\ cache_log.op = "get"
    /\ cache_log.ops >= 3
    /\ cache_log.hits = 1
    /\ cache_log.key \in DOMAIN cache
    /\ cache_log.result = {CachedContent(cache[cache_log.key])}
    /\ cache[cache_log.key].content.id = 1
    /\ cache[cache_log.key].access_count = 1
    /\ Cardinality(DOMAIN cache) = 2

\* ---------------------------------------------------------------- claim C38
\* C38: after every set the sum of size_bytes over the cache's entries is at
\* most max_size_mb * 1,048,576, and the entries a set evicts were accessed no
\* later than the entries it keeps.
C38_CacheWithinLimit ==
    [][\A k \in CacheKeys, c \in Contents, ct \in ContentTypes, ttl \in Ttls :
          (/\ cache_log'.op = "set" /\ cache_log'.key = k /\ cache_log'.content = {c}
           /\ CacheSet(k, c, ct, ttl))
          => /\ CurrentSize(cache') <= MaxSizeBytes
             /\ LET evicted == cache_log'.evicted
                    gone == {evicted[i] : i \in 1..Len(evicted)}
                IN \A e \in gone, kept \in DOMAIN cache \ gone :
                      cache[e].last_accessed <= cache[kept].last_accessed]_vars

\* ---------------------------------------------------------------- claim C35
\* ---- connect_dapp with its dapp_name and dapp_icon arguments, while the clock
\* advances (HestiaDetailSpec).
DappInfos == {[name |-> "Example dApp", icon |-> {}],
              [name |-> "Renamed dApp", icon |-> {"https://dapp.example/icon.png"}]}

HestiaDetailNext ==
    \/ \E u \in Users, d \in DappInfos, ps \in PermissionLists :
           ConnectDappAs(u, 1, "https://dapp.example", d.name, d.icon, ps)
    \/ \E u \in Users, id \in ConnectionIds : DisconnectDapp(u, id)
    \/ Tick

HestiaDetailSpec == HestiaInit /\ [][HestiaDetailNext]_vars

\* C35: a connect_dapp on a triple that already has a record changes only the
\* permissions and last_used of that record (to the requested list and the
\* clock): its id, user, wallet, origin, name, icon and connected_at are as
\* before, no record is added, and every other record is unchanged.
C35_ReconnectFrame ==
    [][\A u \in Users, d \in DappInfos, ps \in PermissionLists :
          (/\ hcalls'[1].op = "connect" /\ hcalls'[1].user_id = u
           /\ hcalls'[1].permissions = ps
           /\ ConnectDappAs(u, 1, "https://dapp.example", d.name, d.icon, ps)
           /\ FindConnection(dapp_connections, u, 1, "https://dapp.example") # {})
          => LET id == hcalls'[1].connection_id
             IN /\ id \in FindConnection(dapp_connections, u, 1, "https://dapp.example")
                /\ DOMAIN dapp_connections' = DOMAIN dapp_connections
                /\ dapp_connections'[id] =
                       [dapp_connections[id] EXCEPT !.permissions = ps, !.last_used = now]
                /\ \A i \in DOMAIN dapp_connections \ {id} :
                       dapp_connections'[i] = dapp_connections[i]]_vars

\* C35 witness: a connect_dapp just replaced the permissions of a record made
\* earlier under another name: the record keeps its name and connected_at,
\* last_used is later, and a record of another user is stored.
C35_Witness ==
    /\ hcalls[1].op = "connect"
    /\ hcalls[1].connection_id \in DOMAIN dapp_connections
    /\ LET conn == dapp_connections[hcalls[1].connection_id]
       IN /\ conn.connected_at < conn.last_used
          /\ conn.last_used = now
          /\ conn.permissions = hcalls[1].permissions
          /\ conn.permissions # <<>>
          /\ conn.dapp_name = "Example dApp"
          /\ \E i \in DOMAIN dapp_connections :
                 /\ dapp_connections[i].user_id # conn.user_id
                 /\ dapp_connections[i].dapp_name = "Renamed dApp"

\* ---------------------------------------------------------------- claim C36
\* ---- connections of triples that differ in user, in wallet and in origin
\* (HestiaScopeSpec).
\* A triple, and the three that differ from it in the user, in the wallet and
\* in the origin only.
ScopeTriples ==
    {<<"u1", 1, "https://dapp.example">>, <<"u2", 1, "https://dapp.example">>,
     <<"u1", 2, "https://dapp.example">>, <<"u1", 1, "https://other.example">>}
ScopePermissionLists == {<<ViewBalance>>, <<ViewBalance, RequestTransaction>>}

HestiaScopeNext ==
    \/ \E t \in ScopeTriples, ps \in ScopePermissionLists : ConnectDapp(t[1], t[2], t[3], ps)
    \/ \E u \in Users, id \in ConnectionIds : DisconnectDapp(u, id)

HestiaScopeSpec == HestiaInit /\ [][HestiaScopeNext]_vars

\* The answers of has_permission for every triple other than (u, w, o) are the
\* same before and after the step.
OtherTriplesKeep(u, w, o) ==
    \A t \in ScopeTriples, p \in Permission :
        t # <<u, w, o>>
           => HasPermission(dapp_connections', t[1], t[2], t[3], p)
                 = HasPermission(dapp_connections, t[1], t[2], t[3], p)

\* C36: connect_dapp(user, wallet, origin, perms) changes the result of
\* has_permission for no triple that differs in user, wallet or origin, and
\* disconnect_dapp changes it for no triple other than that of the record it
\* removes.
C36_GrantScopedToTriple ==
    [][/\ \A t \in ScopeTriples, ps \in ScopePermissionLists :
             (/\ hcalls'[1].op = "connect" /\ hcalls'[1].user_id = t[1]
              /\ hcalls'[1].wallet_id = t[2] /\ hcalls'[1].dapp_origin = t[3]
              /\ hcalls'[1].permissions = ps
              /\ ConnectDapp(t[1], t[2], t[3], ps))
             => OtherTriplesKeep(t[1], t[2], t[3])
       /\ \A u \in Users, id \in ConnectionIds :
             (/\ hcalls'[1].op = "disconnect" /\ hcalls'[1].user_id = u
              /\ hcalls'[1].connection_id = id
              /\ DisconnectDapp(u, id))
             => IF id \in DOMAIN dapp_connections
                THEN OtherTriplesKeep(dapp_connections[id].user_id,
                                      dapp_connections[id].wallet_id,
                                      dapp_connections[id].dapp_origin)
                ELSE dapp_connections' = dapp_connections]_vars

\* C36 witness: after a connect_dapp three records are stored, one of the same
\* user on another wallet with other permissions than the list just granted,
\* and one of another user on the same wallet.
C36_Witness ==
    /\ hcalls[1].op = "connect"
    /\ Cardinality(DOMAIN dapp_connections) = 3
    /\ \E i \in DOMAIN dapp_connections, j \in DOMAIN dapp_connections :
          /\ dapp_connections[i].user_id = hcalls[1].user_id
          /\ dapp_connections[i].wallet_id # hcalls[1].wallet_id
          /\ dapp_connections[i].permissions # hcalls[1].permissions
          /\ dapp_connections[j].user_id # hcalls[1].user_id
          /\ dapp_connections[j].wallet_id = hcalls[1].wallet_id

\* ---------------------------------------------------------------- claim C37
\* C37: for every timestamp of the signed integer type, the least and the
\* greatest included, AuthHeader::verify computes now - timestamp and its
\* absolute value within the type's range, does not panic, and returns either
\* "Challenge expired" or the result of verify_challenge.
C37_FreshnessNoOverflow ==
    (last_auth.fn = "verify_auth" /\ last_auth.form = "json")
       => /\ ~Overflows(last_auth.at - last_auth.timestamp)
          /\ ~Overflows(Abs(last_auth.at - last_auth.timestamp))
          /\ last_auth.result # Panicked
          /\ last_auth.result \in
                {VErr(ChallengeExpired),
                 VerifyChallenge(last_auth.wallet, last_auth.signature, last_auth.timestamp)}
          /\ Abs(last_auth.at - last_auth.timestamp) > FreshnessWindow
                => last_auth.result = VErr(ChallengeExpired)

====
